---- MODULE Spec2Model ----
(***************************************************************************)
(* A model of the value formatter of go-missing-utilities (Format and its   *)
(* private format* helpers).  Run-time values are nodes of a finite heap,   *)
(* run-time types are records, rendered text is a sequence of string        *)
(* pieces whose concatenation is the Go string, and the recursion of the    *)
(* renderer is an explicit call stack.                                      *)
(*                                                                         *)
(* The module has one specification per part of the library:                *)
(*   Spec       one call of Format after the other, on one value;           *)
(*   Reentrant  two goroutines calling Format at the same time;             *)
(*   Utilities  the array and map comparisons and the index conversions;    *)
(*   Arrays     CombineArrays and the backing arrays of slices;             *)
(*   Machine    the finite state machine of the controller;                 *)
(*   Iteration  the methods of an iterator, called in any order;            *)
(*   Traversal  a loop over an iterator, from one end to the other;         *)
(*   Codex      the base 32 encoding and decoding of bytes.                 *)
(* Each specification leaves the variables of the other parts as they are.  *)
(***************************************************************************)
EXTENDS Integers, Sequences, FiniteSets, TLC

VARIABLES
    heap,       \* the values in memory: each node's type and contents, by name
    value,      \* the node handed to Format ("nil" is the nil interface)
    storage,    \* for each map node, the order in which MapKeys yields its keys
    frames,     \* the call stack: one frame per formatValue call in progress
    result,     \* outcome of the latest Format call on value
    previous    \* outcome of the Format call before that, on the same value

\* Two goroutines calling Format at the same time.
VARIABLES
    calls,      \* per goroutine: its value, its call stack and its outcome
    alone,      \* per goroutine: the outcome of its call when nothing else runs
    consulted   \* the package-level variables that have been read so far

callVars == <<calls, alone, consulted>>

\* The array, map and index utilities.
VARIABLES
    call,       \* the latest call of a utility: its arguments and what it returned
    memory,     \* the backing arrays that have been allocated
    held        \* the slices the caller holds: a backing array and a length

\* The finite state machine of controller.go.
VARIABLES
    controller  \* the controller_ instance: state_, events_ and transitions_

\* The iterator of composite.go.
VARIABLES
    iterator,   \* the iterator_ instance: slot_, size_ and values_
    loop        \* a loop over the iterator: where it is and what it has got

formatVars == <<heap, value, storage, frames, result, previous>>
compositeVars == <<call, memory, held>>
iteratorVars == <<iterator, loop>>

vars == <<formatVars, callVars, compositeVars, controller, iteratorVars>>

\* What the formatter of a single call leaves alone.
outsideFormat == <<callVars, compositeVars, controller, iteratorVars>>

\* What two concurrent calls of the formatter leave alone.
outsideCalls ==
    <<value, frames, result, previous, compositeVars, controller, iteratorVars>>

\* What the array, map and index utilities leave alone.
outsideComposite == <<formatVars, callVars, controller, iteratorVars>>

\* What the controller leaves alone.
outsideController == <<formatVars, callVars, memory, held, iteratorVars>>

\* What the iterator leaves alone.
outsideIterator == <<formatVars, callVars, memory, held, controller>>

\* No iterator has been constructed, and no loop is running.
NoIterator == [made |-> FALSE]
NoLoop == [pc |-> "none"]

\* No controller has been constructed.
NoController == [made |-> FALSE]

\* No call of a utility has been made.
NoCall == [op |-> "none"]

\* ------------------------------------------------------------------------
\* Bounds of the model
\* ------------------------------------------------------------------------

\* Number of nested formatValue calls after which the Go runtime is taken to
\* abort the program with a stack overflow.
MaxStack == 24

\* ------------------------------------------------------------------------
\* Run-time types (reflect.Type)
\* ------------------------------------------------------------------------

Scalar(k, n) == [kind |-> k, name |-> n, methods |-> <<>>]

Named(t, n) == [t EXCEPT !.name = n]

WithMethods(t, ms) == [t EXCEPT !.methods = ms]

\* A method of a type's method set: its name (split after a leading "Get"),
\* the number of its arguments and the types of its results.
Method(n, ins, outs) == [name |-> n, numIn |-> ins, out |-> outs]

\* The predeclared scalar types, by reflect.Kind.
Basic(k) ==
    Scalar(k, CASE k = "Bool" -> "bool"
                [] k = "Uint8" -> "uint8"
                [] k = "Uint16" -> "uint16"
                [] k = "Uint" -> "uint"
                [] k = "Uintptr" -> "uintptr"
                [] k = "Int8" -> "int8"
                [] k = "Int32" -> "int32"
                [] k = "Int64" -> "int64"
                [] k = "Int" -> "int"
                [] k = "Float64" -> "float64"
                [] k = "Complex128" -> "complex128"
                [] k = "String" -> "string"
                [] k = "UnsafePointer" -> "Pointer")

intT == Basic("Int")
stringT == Basic("String")
float64T == Basic("Float64")
IntegerT == Named(intT, "Integer")

anyT == [kind |-> "Interface", name |-> "", str |-> "interface {}", methods |-> <<>>]
FooBarLikeT == [kind |-> "Interface", name |-> "FooBarLike", str |-> "module_test.FooBarLike",
             methods |-> <<>>]

SliceOf(e) == [kind |-> "Slice", name |-> "", elem |-> e, methods |-> <<>>]
ArrayOf(e) == [kind |-> "Array", name |-> "", elem |-> e, methods |-> <<>>]
MapOf(k, e) == [kind |-> "Map", name |-> "", key |-> k, elem |-> e, methods |-> <<>>]
PointerTo(e) == [kind |-> "Pointer", name |-> "", elem |-> e, methods |-> <<>>]
ChanOf(e, d) == [kind |-> "Chan", name |-> "", elem |-> e, dir |-> d, methods |-> <<>>]
FuncOf(ins, outs) == [kind |-> "Func", name |-> "", ins |-> ins, outs |-> outs,
                      methods |-> <<>>]
StructOf(n, fs) == [kind |-> "Struct", name |-> n, fields |-> fs, methods |-> <<>>]
Field(n, exported, embedded, t) ==
    [name |-> n, exported |-> exported, embedded |-> embedded, type |-> t]

\* The types of the test programs (module_test.go) and a few more.
TriangleT == StructOf("Triangle", << Field("X", TRUE, FALSE, float64T),
                                     Field("Y", TRUE, FALSE, float64T),
                                     Field("r", FALSE, FALSE, float64T) >>)
InnerT == StructOf("Inner", << Field("X", TRUE, FALSE, intT),
                               Field("Y", TRUE, FALSE, intT) >>)
OuterT == StructOf("Outer", << Field("A", TRUE, FALSE, intT),
                               Field("Inner", TRUE, TRUE, InnerT),
                               Field("b", FALSE, FALSE, intT) >>)
ShadowT == StructOf("Shadow", << Field("Inner", TRUE, TRUE, InnerT),
                                 Field("X", TRUE, FALSE, intT),
                                 Field("Y", TRUE, FALSE, intT) >>)
AnonymousT == StructOf("", <<>>)
FooBarStructT == StructOf("FooBar", << Field("foo", FALSE, FALSE, intT),
                                       Field("bar", FALSE, FALSE, anyT) >>)
FooBarT == WithMethods(PointerTo(FooBarStructT),
               << Method(<<"Get", "Bar">>, 0, <<anyT>>),
                  Method(<<"Get", "Class">>, 0, <<PointerTo(FooBarStructT)>>),
                  Method(<<"Get", "Foo">>, 0, <<intT>>) >>)
AssociationT == WithMethods(
    PointerTo(StructOf("Association", << Field("key", FALSE, FALSE, anyT),
                                         Field("value", FALSE, FALSE, anyT) >>)),
    << Method(<<"Get", "Key">>, 0, <<anyT>>), Method(<<"Get", "Value">>, 0, <<anyT>>) >>)
MapClassT == WithMethods(
    PointerTo(StructOf("Map", << Field("associations", FALSE, FALSE,
                                       SliceOf(AssociationT)) >>)),
    << Method(<<"AsArray">>, 0, <<SliceOf(AssociationT)>>),
       Method(<<"Get", "Keys">>, 0, <<SliceOf(anyT)>>) >>)
ArrayClassT == WithMethods(
    PointerTo(StructOf("Array", << Field("values", FALSE, FALSE, SliceOf(stringT)) >>)),
    << Method(<<"AsArray">>, 0, <<SliceOf(stringT)>>) >>)
KeysOnlyT == WithMethods(
    PointerTo(StructOf("Catalog", << Field("keys", FALSE, FALSE, SliceOf(anyT)) >>)),
    << Method(<<"Get", "Keys">>, 0, <<SliceOf(anyT)>>) >>)
ClassT == WithMethods(
    PointerTo(StructOf("Class", <<>>)),
    << Method(<<"DoNothing">>, 0, <<>>),
       Method(<<"Get", "Scaled">>, 1, <<intT>>) >>)
StringsT == Named(SliceOf(stringT), "Array")
DictT == Named(MapOf(stringT, intT), "Dict")
IntRefT == Named(PointerTo(intT), "IntRef")
PipeT == Named(ChanOf(intT, "Both"), "Pipe")
HandlerT == Named(FuncOf(<<intT>>, <<>>), "Handler")
CreateFooBarT == FuncOf(<<intT, anyT>>, <<FooBarLikeT>>)

\* ------------------------------------------------------------------------
\* Run-time values (reflect.Value): a finite heap of nodes
\* ------------------------------------------------------------------------

\* The zero reflect.Value (IsValid() is false): a nil interface.
Nil == "nil"

\* The node holding x in a variable of type any (reflect.Kind Interface).
Wrap(x) == "any:" \o x

Num(t, n) == [type |-> t, n |-> n]
Flt(nan, n) == [type |-> float64T, nan |-> nan, n |-> n]
Cpx(re, im) == [type |-> Basic("Complex128"), re |-> re, im |-> im]
Str(s) == [type |-> stringT, s |-> s]
List(t, elems) == [type |-> t, elems |-> elems]
Dict(t, keys, vals) == [type |-> t, keys |-> keys, vals |-> vals]
Rec(t, fields) == [type |-> t, fields |-> fields]
Ptr(t, elem, results) == [type |-> t, elem |-> elem, results |-> results]

Scalars ==
       ("false" :> [type |-> Basic("Bool"), b |-> FALSE])
    @@ ("true" :> [type |-> Basic("Bool"), b |-> TRUE])
    @@ ("byte16" :> Num(Basic("Uint8"), 16))
    @@ ("uint85" :> Num(Basic("Uint8"), 5))
    @@ ("word1" :> Num(Basic("Uint16"), 1))
    @@ ("addr1" :> Num(Basic("Uintptr"), 1))
    @@ ("addr2" :> Num(Basic("Uintptr"), 2))
    @@ ("int1" :> Num(intT, 1))
    @@ ("int2" :> Num(intT, 2))
    @@ ("int3" :> Num(intT, 3))
    @@ ("int13" :> Num(intT, 13))
    @@ ("Integer1" :> Num(IntegerT, 1))
    @@ ("long" :> Num(Basic("Int64"), -5))
    @@ ("rune" :> Num(Basic("Int32"), 97))
    @@ ("one" :> Flt(FALSE, 1))
    @@ ("two" :> Flt(FALSE, 2))
    @@ ("NaN" :> Flt(TRUE, 0))
    @@ ("float" :> Flt(FALSE, 1230000000))
    @@ ("c10" :> Cpx(1, 0))
    @@ ("c01" :> Cpx(0, 1))
    @@ ("c34" :> Cpx(3, 4))
    @@ ("a" :> Str("a"))
    @@ ("ab" :> Str("ab"))
    @@ ("b" :> Str("b"))
    @@ ("unsafe" :> [type |-> Basic("UnsafePointer")])
    @@ ("CreateFooBar" :> [type |-> CreateFooBarT, fname |-> <<"module_test", "CreateFooBar">>])
    @@ ("handler" :> [type |-> HandlerT, fname |-> <<>>])
    @@ ("channel" :> [type |-> ChanOf(stringT, "Both"), cap |-> 4, len |-> 0])
    @@ ("pipe" :> [type |-> PipeT, cap |-> 0, len |-> 0])

Sequences_ ==
       ("empty" :> List(SliceOf(intT), <<>>))
    @@ ("ints" :> List(SliceOf(intT), <<"int1", "int2", "int3">>))
    @@ ("pair" :> List(ArrayOf(intT), <<"int1", "int2">>))
    @@ ("strings" :> List(StringsT, <<"b", "a">>))
    @@ ("loop" :> List(SliceOf(anyT), <<Wrap("loop")>>))
    @@ ("loopChannel" :> List(SliceOf(anyT), <<Wrap("loopChannel"), Wrap("channel")>>))
    @@ ("nest1" :> List(SliceOf(anyT), <<Wrap("nest2")>>))
    @@ ("nest2" :> List(SliceOf(anyT), <<Wrap("nest3")>>))
    @@ ("nest3" :> List(SliceOf(anyT), <<Wrap("nest4")>>))
    @@ ("nest4" :> List(SliceOf(anyT), <<Wrap("nest5")>>))
    @@ ("nest5" :> List(SliceOf(anyT), <<Wrap("nest6")>>))
    @@ ("nest6" :> List(SliceOf(anyT), <<Wrap("nest7")>>))
    @@ ("nest7" :> List(SliceOf(anyT), <<Wrap("nest8")>>))
    @@ ("nest8" :> List(SliceOf(anyT),
                        <<Wrap("twoPointers"), Wrap("empty"), Wrap("triangle"),
                          Wrap("fooBar"), Wrap("map")>>))
    @@ ("associations" :> List(SliceOf(AssociationT), <<"two=2", "one=1">>))
    @@ ("nothing" :> List(SliceOf(anyT), <<Wrap(Nil)>>))

Maps ==
       ("none" :> Dict(MapOf(stringT, intT), <<>>, <<>>))
    @@ ("words" :> Dict(DictT, <<"a", "b", "ab">>, <<"int1", "int2", "int3">>))
    @@ ("mixed" :> Dict(MapOf(anyT, anyT),
                        <<Wrap("true"), Wrap("int13"), Wrap("b"), Wrap("one")>>,
                        <<Wrap("true"), Wrap("int13"), Wrap("b"), Wrap("one")>>))
    @@ ("ranks" :> Dict(MapOf(anyT, intT),
                        <<Wrap("uint85"), Wrap("word1"), Wrap("long"), Wrap("rune")>>,
                        <<"int1", "int2", "int3", "int13">>))
    @@ ("amplitudes" :> Dict(MapOf(Basic("Complex128"), intT),
                             <<"c10", "c01", "c34">>, <<"int1", "int2", "int3">>))
    @@ ("aliases" :> Dict(MapOf(anyT, intT),
                          <<Wrap("int1"), Wrap("Integer1")>>, <<"int1", "int2">>))
    @@ ("absent" :> Dict(MapOf(anyT, intT),
                         <<Wrap(Nil), Wrap("true"), Wrap("false")>>,
                         <<"int1", "int2", "int3">>))
    @@ ("numbers" :> Dict(MapOf(float64T, intT),
                          <<"two", "NaN", "one">>, <<"int2", "int3", "int1">>))
    @@ ("flags" :> Dict(MapOf(Basic("Bool"), stringT), <<"true", "false">>, <<"a", "b">>))
    @@ ("onePointer" :> Dict(MapOf(PointerTo(intT), intT), <<"pointer">>, <<"int1">>))
    @@ ("twoPointers" :> Dict(MapOf(PointerTo(intT), intT),
                              <<"pointer", "null">>, <<"int1", "int2">>))
    @@ ("addresses" :> Dict(MapOf(Basic("Uintptr"), intT),
                            <<"addr1", "addr2">>, <<"int1", "int2">>))
    @@ ("opaque" :> Dict(MapOf(anyT, intT),
                         <<Wrap("pointer"), Wrap("a"), Wrap("channel"), Wrap("unsafe")>>,
                         <<"int1", "int2", "int3", "int13">>))
    @@ ("scattered" :> Dict(MapOf(anyT, intT),
                            <<Wrap("pointer"), Wrap("a"), Wrap("null")>>,
                            <<"int1", "int2", "int3">>))
    @@ ("map" :> Dict(MapOf(stringT, anyT), <<"a">>, <<Wrap("map")>>))

Records ==
       ("triangle" :> Rec(TriangleT, <<"one", "two", "one">>))
    @@ ("unit" :> Rec(AnonymousT, <<>>))
    @@ ("inner" :> Rec(InnerT, <<"int3", "int13">>))
    @@ ("outer" :> Rec(OuterT, <<"int1", "inner", "int2">>))
    @@ ("shadow" :> Rec(ShadowT, <<"inner", "int1", "int2">>))

References ==
       ("pointer" :> Ptr(PointerTo(intT), "int13", <<>>))
    @@ ("null" :> Ptr(PointerTo(intT), Nil, <<>>))
    @@ ("intRef" :> Ptr(IntRefT, "int1", <<>>))
    @@ ("slicePointer" :> Ptr(PointerTo(SliceOf(intT)), "ints", <<>>))
    @@ ("knot" :> Ptr(PointerTo(anyT), Wrap("knot"), <<>>))
    @@ ("fooBar" :> Ptr(FooBarT, Nil, <<Wrap("fooBar"), "fooBar", "int1">>))
    @@ ("two=2" :> Ptr(AssociationT, Nil, <<Wrap("b"), Wrap("int2")>>))
    @@ ("one=1" :> Ptr(AssociationT, Nil, <<Wrap("a"), Wrap("int1")>>))
    @@ ("mapObject" :> Ptr(MapClassT, Nil, <<"associations", "strings">>))
    @@ ("arrayObject" :> Ptr(ArrayClassT, Nil, <<"strings">>))
    @@ ("catalog" :> Ptr(KeysOnlyT, Nil, <<"strings">>))
    @@ ("object" :> Ptr(ClassT, Nil, <<Nil, "int1">>))

\* The values Format is applied to.
Values == Scalars @@ Sequences_ @@ Maps @@ Records @@ References

\* Every value, and the nil interface, also occurs held in an any.
Heap ==
    Values @@ [w \in {Wrap(x) : x \in DOMAIN Values \cup {Nil}} |->
                  [type |-> anyT,
                   elem |-> CHOOSE x \in DOMAIN Values \cup {Nil} : Wrap(x) = w]]

Kind(id) == IF id = Nil THEN "Invalid" ELSE heap[id].type.kind

\* ------------------------------------------------------------------------
\* Text: a Go string is modelled as the sequence of the pieces appended to
\* it; scalars are rendered into one piece each.
\* ------------------------------------------------------------------------

maximumDepth == 8

Digit(d) ==
    CASE d = 0 -> "0" [] d = 1 -> "1" [] d = 2 -> "2" [] d = 3 -> "3"
      [] d = 4 -> "4" [] d = 5 -> "5" [] d = 6 -> "6" [] d = 7 -> "7"
      [] d = 8 -> "8" [] d = 9 -> "9" [] d = 10 -> "a" [] d = 11 -> "b"
      [] d = 12 -> "c" [] d = 13 -> "d" [] d = 14 -> "e" [] d = 15 -> "f"

\* strconv.FormatUint(n, base)
RECURSIVE FormatUint(_, _)
FormatUint(n, base) ==
    IF n < base THEN Digit(n)
    ELSE FormatUint(n \div base, base) \o Digit(n % base)

\* strconv.FormatInt(n, 10)
FormatInt(n) == IF n < 0 THEN "-" \o FormatUint(-n, 10) ELSE FormatUint(n, 10)

\* strconv.FormatFloat(f, 'G', -1, 64) of NaN or of an integral float n: the
\* shortest digits, in %f form when the decimal exponent is below 6 and in
\* %E form otherwise.  marked tells whether the text has a "." or an "E".
FormatFloat(nan, n) ==
    LET RECURSIVE Strip(_), Width(_), Lead(_), Pad(_, _)
        Lead(m) == IF m < 10 THEN m ELSE Lead(m \div 10)
        Strip(m) == IF m % 10 = 0 THEN Strip(m \div 10) ELSE m
        Width(m) == IF m < 10 THEN 1 ELSE 1 + Width(m \div 10)
        Pad(m, w) == IF w = 0 THEN "" ELSE Pad(m \div 10, w - 1) \o Digit(m % 10)
        abs == IF n < 0 THEN -n ELSE n
        sign == IF n < 0 THEN "-" ELSE ""
        exp == Width(abs) - 1
        digits == Strip(abs)
        nd == Width(digits)
    IN  IF nan THEN [text |-> "NaN", marked |-> FALSE]
        ELSE IF abs = 0 \/ exp < 6 THEN [text |-> FormatInt(n), marked |-> FALSE]
        ELSE [text |-> sign \o Digit(Lead(digits))
                         \o (IF nd > 1 THEN "." \o Pad(digits, nd - 1) ELSE "")
                         \o "E+" \o Pad(exp, 2),
              marked |-> TRUE]

\* The code points of the strings of the model ([]byte(s), all ASCII).
CodePoints(s) ==
    CASE s = "a" -> <<97>> [] s = "b" -> <<98>> [] s = "ab" -> <<97, 98>>
      [] s = "" -> <<>>

\* Go's s < t on strings: lexicographic on the bytes.
RECURSIVE LexLess(_, _)
LexLess(s, t) ==
    IF t = <<>> THEN FALSE
    ELSE IF s = <<>> THEN TRUE
    ELSE IF Head(s) # Head(t) THEN Head(s) < Head(t)
    ELSE LexLess(Tail(s), Tail(t))

\* What a function does, in order: it appends a text to its result, calls
\* formatValue(id, depth) and appends what that returns, or panics.
Text(out) == [op |-> "text", out |-> out, id |-> Nil, depth |-> 0]
Invoke(id, depth) == [op |-> "call", out |-> <<>>, id |-> id, depth |-> depth]
Panic(message) == [op |-> "panic", out |-> <<message>>, id |-> Nil, depth |-> 0]

\* formatNewline with the loop running once too often (level <= depth).
formatNewlineOnceMore(depth) == <<"\n">> \o [level \in 1..(depth + 1) |-> "    "]

formatNewline(depth) == <<"\n">> \o [level \in 1..depth |-> "    "]

formatBoolean(id) == IF heap[id].b THEN "true" ELSE "false"

formatUnsigned(id) == "0x" \o FormatUint(heap[id].n, 16)

formatInteger(id) == FormatInt(heap[id].n)

formatFloat(id) ==
    LET shortest == FormatFloat(heap[id].nan, heap[id].n)
    IN  IF ~shortest.marked THEN shortest.text \o ".0" ELSE shortest.text

\* strconv.FormatComplex: "(" real part, signed imaginary part, "i)"
formatComplex(id) ==
    LET im == heap[id].im
    IN  "(" \o FormatInt(heap[id].re) \o (IF im < 0 THEN "" ELSE "+")
            \o FormatInt(im) \o "i)"

\* strconv.QuoteRune of a printable ASCII letter
formatRune(id) ==
    LET n == heap[id].n
    IN  "'" \o (CASE n = 97 -> "a" [] n = 98 -> "b") \o "'"

\* strconv.Quote of a string that needs no escapes
formatString(id) == "\"" \o heap[id].s \o "\""

\* ------------------------------------------------------------------------
\* The type-name formatter
\* ------------------------------------------------------------------------

\* formatType asking for the declared name before it looks at the kind.
RECURSIVE formatTypeByName(_)
formatTypeByName(reflectedType) ==
    LET kind == reflectedType.kind
        RECURSIVE list(_, _)
        list(types, index) ==
            IF index > Len(types) THEN <<>>
            ELSE formatTypeByName(types[index])
                 \o (IF index < Len(types) THEN <<", ">> ELSE <<>>)
                 \o list(types, index + 1)
    IN  CASE reflectedType.name # "" -> <<reflectedType.name>>
          [] kind = "Interface" ->
                 IF reflectedType.str = "interface {}" THEN <<"any">>
                 ELSE <<reflectedType.str>>
          [] kind = "Pointer" -> <<"*">> \o formatTypeByName(reflectedType.elem)
          [] kind = "Func" ->
                 <<"func", "(">> \o list(reflectedType.ins, 1) \o <<")">>
                 \o (IF Len(reflectedType.outs) > 0
                     THEN <<" (">> \o list(reflectedType.outs, 1) \o <<")">>
                     ELSE <<>>)
          [] kind = "Struct" -> <<"struct">>
          [] kind = "Chan" -> <<"chan ">> \o formatTypeByName(reflectedType.elem)
          [] kind \in {"Array", "Slice"} ->
                 <<"array[">> \o formatTypeByName(reflectedType.elem) \o <<"]">>
          [] kind = "Map" ->
                 <<"map[">> \o formatTypeByName(reflectedType.key) \o <<", ">>
                 \o formatTypeByName(reflectedType.elem) \o <<"]">>
          [] OTHER -> <<reflectedType.str>>

RECURSIVE formatType(_)
formatType(reflectedType) ==
    LET kind == reflectedType.kind
        RECURSIVE list(_, _)
        list(types, index) ==
            IF index > Len(types) THEN <<>>
            ELSE formatType(types[index])
                 \o (IF index < Len(types) THEN <<", ">> ELSE <<>>)
                 \o list(types, index + 1)
        named == IF reflectedType.name # "" THEN reflectedType.name
                 ELSE reflectedType.str
    IN  CASE kind = "Interface" ->
                 IF named = "interface {}" THEN <<"any">> ELSE <<named>>
          [] kind = "Pointer" -> <<"*">> \o formatType(reflectedType.elem)
          [] kind = "UnsafePointer" -> <<"<unsafe>">>
          [] kind = "Func" ->
                 <<"func", "(">> \o list(reflectedType.ins, 1) \o <<")">>
                 \o (IF Len(reflectedType.outs) > 0
                     THEN <<" (">> \o list(reflectedType.outs, 1) \o <<")">>
                     ELSE <<>>)
          [] kind = "Struct" ->
                 IF reflectedType.name = "" THEN <<"struct">>
                 ELSE <<reflectedType.name>>
          [] kind = "Chan" -> <<"chan ">> \o formatType(reflectedType.elem)
          [] kind \in {"Array", "Slice"} ->
                 <<"array[">> \o formatType(reflectedType.elem) \o <<"]">>
          [] kind = "Map" ->
                 <<"map[">> \o formatType(reflectedType.key) \o <<", ">>
                 \o formatType(reflectedType.elem) \o <<"]">>
          [] OTHER -> <<named>>

\* ------------------------------------------------------------------------
\* The key sorter of formatMap
\* ------------------------------------------------------------------------

typeMap ==
       ("Bool" :> 0) @@ ("Uint8" :> 1) @@ ("Uint16" :> 2) @@ ("Uint32" :> 3)
    @@ ("Uint64" :> 4) @@ ("Uint" :> 5) @@ ("Int8" :> 6) @@ ("Int16" :> 7)
    @@ ("Int64" :> 8) @@ ("Int" :> 9) @@ ("Float32" :> 10) @@ ("Float64" :> 11)
    @@ ("Complex64" :> 12) @@ ("Complex128" :> 13) @@ ("Int32" :> 14)
    @@ ("String" :> 15) @@ ("Func" :> 16) @@ ("Chan" :> 17) @@ ("Array" :> 18)
    @@ ("Slice" :> 19) @@ ("Map" :> 20) @@ ("Struct" :> 21) @@ ("Pointer" :> 22)
    @@ ("Interface" :> 23) @@ ("Uintptr" :> 24) @@ ("UnsafePointer" :> 25)

\* typeMap[kind]: a Go map yields the zero value for a missing key.
TypeRank(kind) == IF kind \in DOMAIN typeMap THEN typeMap[kind] ELSE 0

\* reflect.Value.Elem of a key of kind Interface, the key itself otherwise.
Unwrapped(key) == IF Kind(key) = "Interface" THEN heap[key].elem ELSE key

\* A less function that looks the kinds up in the supported part of the
\* table first, and panics on a key of any other kind.
lessByTable(first, second) ==
    LET firstKey == Unwrapped(first)
        secondKey == Unwrapped(second)
        x == heap[firstKey]
        y == heap[secondKey]
    IN  IF TypeRank(Kind(firstKey)) > 15 \/ TypeRank(Kind(secondKey)) > 15
        THEN [panic |-> TRUE, less |-> FALSE, ranked |-> TRUE]
        ELSE IF Kind(firstKey) # Kind(secondKey)
        THEN [panic |-> FALSE, ranked |-> TRUE,
              less |-> TypeRank(Kind(firstKey)) < TypeRank(Kind(secondKey))]
        ELSE [panic |-> FALSE, ranked |-> TRUE,
              less |-> IF "s" \in DOMAIN x
                       THEN LexLess(CodePoints(x.s), CodePoints(y.s))
                       ELSE IF "b" \in DOMAIN x THEN ~x.b /\ y.b
                       ELSE IF "re" \in DOMAIN x
                       THEN x.re * x.re + x.im * x.im < y.re * y.re + y.im * y.im
                       ELSE IF "nan" \in DOMAIN x
                       THEN ~x.nan /\ ~y.nan /\ x.n < y.n
                       ELSE x.n < y.n]

\* The less function handed to sort.SliceStable: whether it panics, its
\* answer otherwise, and whether it looked the kinds up in typeMap.
less(first, second) ==
    LET firstKey == Unwrapped(first)
        secondKey == Unwrapped(second)
        kind == Kind(firstKey)
        x == heap[firstKey]
        y == heap[secondKey]
        answer(b) == [panic |-> FALSE, less |-> b, ranked |-> FALSE]
    IN  IF kind # Kind(secondKey)
        THEN [panic |-> FALSE, ranked |-> TRUE,
              less |-> TypeRank(kind) < TypeRank(Kind(secondKey))]
        ELSE CASE kind = "Bool" -> answer(~x.b /\ y.b)
               [] kind \in {"Int", "Int8", "Int16", "Int32", "Int64"} ->
                      answer(x.n < y.n)
               [] kind \in {"Uint", "Uint8", "Uint16", "Uint32", "Uint64"} ->
                      answer(x.n < y.n)
               [] kind \in {"Float32", "Float64"} ->
                      \* every comparison with a NaN is false
                      answer(~x.nan /\ ~y.nan /\ x.n < y.n)
               [] kind \in {"Complex64", "Complex128"} ->
                      \* cmplx.Abs is monotone in the squared amplitude
                      answer(x.re * x.re + x.im * x.im < y.re * y.re + y.im * y.im)
               [] kind = "String" -> answer(LexLess(CodePoints(x.s), CodePoints(y.s)))
               [] OTHER -> [panic |-> TRUE, less |-> FALSE, ranked |-> FALSE]

\* sort.SliceStable(keys, less) on at most 20 keys: an insertion sort, each
\* key moved left while it is less than its left neighbour.  ranked tells
\* whether any of the comparisons looked a kind up in typeMap.
SliceStable(keys) ==
    LET RECURSIVE sift(_, _, _), sort(_, _, _)
        sift(ks, j, r) ==
            IF j > 1
            THEN LET c == less(ks[j], ks[j - 1])
                     ranked == r \/ c.ranked
                 IN  IF c.panic THEN [panic |-> TRUE, keys |-> ks, ranked |-> ranked]
                     ELSE IF c.less
                     THEN sift([ks EXCEPT ![j] = ks[j - 1], ![j - 1] = ks[j]],
                               j - 1, ranked)
                     ELSE [panic |-> FALSE, keys |-> ks, ranked |-> ranked]
            ELSE [panic |-> FALSE, keys |-> ks, ranked |-> r]
        sort(ks, i, r) ==
            IF i > Len(ks) THEN [panic |-> FALSE, keys |-> ks, ranked |-> r]
            ELSE LET moved == sift(ks, i, r)
                 IN  IF moved.panic THEN moved
                     ELSE sort(moved.keys, i + 1, moved.ranked)
    IN  sort(keys, 2, FALSE)

\* reflect.Value.MapIndex: the value stored under key; a NaN key is never
\* found, and the zero Value is returned for it.
MapIndex(map_, key) ==
    LET k == Unwrapped(key)
        at == CHOOSE i \in 1..Len(heap[map_].keys) : heap[map_].keys[i] = key
    IN  IF Kind(k) \in {"Float32", "Float64"} /\ heap[k].nan THEN Nil
        ELSE heap[map_].vals[at]

\* ------------------------------------------------------------------------
\* The recursive renderer.  Each function is the sequence of the steps it
\* takes for a value at a nesting depth.
\* ------------------------------------------------------------------------

\* reflect.VisibleFields: the fields of a record type in declaration order,
\* each embedded record followed by those of its fields that no shallower
\* field hides.
RECURSIVE VisibleFields(_, _)
VisibleFields(recordType, hidden) ==
    LET fields == recordType.fields
        names == hidden \cup {fields[i].name : i \in 1..Len(fields)}
        RECURSIVE walk(_)
        walk(i) ==
            IF i > Len(fields) THEN <<>>
            ELSE (IF fields[i].name \in hidden THEN <<>> ELSE <<fields[i]>>)
                 \o (IF fields[i].embedded /\ fields[i].type.kind = "Struct"
                     THEN VisibleFields(fields[i].type, names)
                     ELSE <<>>)
                 \o walk(i + 1)
    IN  walk(1)

\* reflect.Value.MethodByName(name).IsValid()
HasMethod(id, name) ==
    \E i \in 1..Len(heap[id].type.methods) : heap[id].type.methods[i].name = name

\* reflect.Value.MethodByName(name).Call([]ref.Value{})[0]
Call(id, name) ==
    IF ~HasMethod(id, name)
    THEN [panic |-> "reflect: call of reflect.Value.Call on zero Value", id |-> Nil]
    ELSE LET i == CHOOSE i \in 1..Len(heap[id].type.methods) :
                      heap[id].type.methods[i].name = name
             method == heap[id].type.methods[i]
         IN  IF method.numIn # 0
             THEN [panic |-> "reflect: Call with too few input arguments", id |-> Nil]
             ELSE IF Len(method.out) = 0
             THEN [panic |-> "index out of range [0] with length 0", id |-> Nil]
             ELSE [panic |-> "", id |-> heap[id].results[i]]

\* The element lines of a composite: a new line before each of its items.
Lines(items, depth) ==
    [k \in 1..(2 * Len(items)) |->
        IF k % 2 = 1 THEN Text(formatNewline(depth)) ELSE items[k \div 2]]

formatSequence(id, depth) ==
    LET elems == heap[id].elems
        size == Len(elems)
        item(index) == Invoke(elems[index], depth + 1)
    IN  IF size = 0 THEN <<Text(<<" ">>)>>
        ELSE IF depth < maximumDepth
        THEN Lines([index \in 1..size |-> item(index)], depth + 1) \o <<Text(formatNewline(depth))>>
        ELSE <<Text(<<"...">>)>>

\* formatArray comparing the depth with <= instead of <.
formatArrayOneDeeper(id, depth) ==
    LET elems == heap[id].elems
        size == Len(elems)
        item(index) == Invoke(elems[index], depth + 1)
    IN  <<Text(<<"[">>)>>
        \o (IF size = 0 THEN <<Text(<<" ">>)>>
            ELSE IF depth <= maximumDepth
            THEN Lines([index \in 1..size |-> item(index)], depth + 1) \o <<Text(formatNewline(depth))>>
            ELSE <<Text(<<"...">>)>>)
        \o <<Text(<<"](">> \o formatType(heap[id].type) \o <<")">>)>>

formatArray(id, depth) ==
    LET elems == heap[id].elems
        size == Len(elems)
        item(index) == Invoke(elems[index], depth + 1)
    IN  <<Text(<<"[">>)>>
        \o (IF size = 0 THEN <<Text(<<" ">>)>>
            ELSE IF depth < maximumDepth
            THEN Lines([index \in 1..size |-> item(index)], depth + 1) \o <<Text(formatNewline(depth))>>
            ELSE <<Text(<<"...">>)>>)
        \o <<Text(<<"](">> \o formatType(heap[id].type) \o <<")">>)>>

formatAssociation(key, val, depth) ==
    <<Invoke(key, depth), Text(<<": ">>), Invoke(val, depth)>>

\* The steps of a list of lines, each line being several steps.
Flatten(lines) ==
    LET RECURSIVE all(_)
        all(index) ==
            IF index > Len(lines) THEN <<>> ELSE lines[index] \o all(index + 1)
    IN  all(1)

\* A formatAssociations that sorts the associations by their keys, as
\* formatMap sorts the keys of a map.
formatAssociationsSorted(id, depth) ==
    LET elems == heap[id].elems
        size == Len(elems)
        keys == [index \in 1..size |-> Call(elems[index], <<"Get", "Key">>).id]
        sorted == SliceStable(keys).keys
        at(index) == CHOOSE i \in 1..size : keys[i] = sorted[index]
        line(index) ==
            <<Text(formatNewline(depth + 1))>>
            \o formatAssociation(
                   sorted[index],
                   Call(elems[at(index)], <<"Get", "Value">>).id, depth + 1)
    IN  IF size = 0 THEN <<Text(<<":">>)>>
        ELSE IF depth < maximumDepth
        THEN Flatten([index \in 1..size |-> line(index)]) \o <<Text(formatNewline(depth))>>
        ELSE <<Text(<<"...">>)>>

formatAssociations(id, depth) ==
    LET elems == heap[id].elems
        size == Len(elems)
        line(index) ==
            LET key == Call(elems[index], <<"Get", "Key">>)
                val == Call(elems[index], <<"Get", "Value">>)
            IN  <<Text(formatNewline(depth + 1))>>
                \o (IF key.panic # "" THEN <<Panic(key.panic)>>
                    ELSE IF val.panic # "" THEN <<Panic(val.panic)>>
                    ELSE formatAssociation(key.id, val.id, depth + 1))
    IN  IF size = 0 THEN <<Text(<<":">>)>>
        ELSE IF depth < maximumDepth
        THEN Flatten([index \in 1..size |-> line(index)]) \o <<Text(formatNewline(depth))>>
        ELSE <<Text(<<"...">>)>>

formatChannel(id, depth) ==
    LET direction == CASE heap[id].type.dir = "Recv" -> "Receive"
                       [] heap[id].type.dir = "Send" -> "Send"
                       [] heap[id].type.dir = "Both" -> "Both"
    IN  << Text(<<"[">>),
           Text(formatNewline(depth + 1)),
           Text(<<"Direction: " \o direction>>),
           Text(formatNewline(depth + 1)),
           Text(<<"Capacity: " \o FormatInt(heap[id].cap)>>),
           Text(formatNewline(depth + 1)),
           Text(<<"Size: " \o FormatInt(heap[id].len)>>),
           Text(formatNewline(depth)),
           Text(<<"](">> \o formatType(heap[id].type) \o <<")">>) >>

formatFunction(id) ==
    LET functionName == heap[id].fname
        functionSignature == formatType(heap[id].type)
    IN  IF functionName # <<>>
        THEN <<Text(<<"func ", functionName[Len(functionName)]>>
                    \o Tail(functionSignature))>>
        ELSE <<Text(functionSignature)>>

formatInstance(id, depth) ==
    LET methods == heap[id].type.methods
        attribute(index) ==
            LET method == methods[index]
            IN  IF Head(method.name) = "Get"
                   /\ method.numIn = 0 /\ Len(method.out) = 1
                THEN << Text(formatNewline(depth + 1)),
                        Text(Tail(method.name) \o <<": ">>),
                        IF method.name = <<"Get", "Class">>
                        THEN Text(formatType(method.out[1]))
                        ELSE Invoke(heap[id].results[index], depth + 1) >>
                ELSE <<>>
    IN  IF depth < maximumDepth
        THEN Flatten([index \in 1..Len(methods) |-> attribute(index)]) \o <<Text(formatNewline(depth))>>
        ELSE <<Text(<<"...">>)>>

formatInterface(id, depth) == <<Invoke(heap[id].elem, depth)>>

formatMap(id, depth) ==
    LET size == Len(heap[id].keys)
        sorted == SliceStable(storage[id])
        line(index) ==
            <<Text(formatNewline(depth + 1))>>
            \o formatAssociation(sorted.keys[index],
                                 MapIndex(id, sorted.keys[index]), depth + 1)
    IN  <<Text(<<"[">>)>>
        \o (IF size = 0 THEN <<Text(<<":">>)>>
            ELSE IF depth < maximumDepth
            THEN IF sorted.panic
                 THEN <<Panic("Attempted to compare an unknown key type")>>
                 ELSE Flatten([index \in 1..size |-> line(index)]) \o <<Text(formatNewline(depth))>>
            ELSE <<Text(<<"...">>)>>)
        \o <<Text(<<"](">> \o formatType(heap[id].type) \o <<")">>)>>

\* formatPointer probing for AsArray before GetKeys.
formatPointerSequenceFirst(id, depth) ==
    LET array == Call(id, <<"AsArray">>)
    IN  <<Text(<<"&[">>)>>
        \o (CASE HasMethod(id, <<"AsArray">>) ->
                     IF array.panic # "" THEN <<Panic(array.panic)>>
                     ELSE formatSequence(array.id, depth)
              [] HasMethod(id, <<"Get", "Keys">>) ->
                     IF array.panic # "" THEN <<Panic(array.panic)>>
                     ELSE formatAssociations(array.id, depth)
              [] Len(heap[id].type.methods) > 0 -> formatInstance(id, depth)
              [] OTHER -> <<Invoke(heap[id].elem, depth)>>)
        \o <<Text(<<"](">> \o formatType(heap[id].type) \o <<")">>)>>

formatPointer(id, depth) ==
    LET array == Call(id, <<"AsArray">>)
    IN  <<Text(<<"&[">>)>>
        \o (CASE HasMethod(id, <<"Get", "Keys">>) ->
                     IF array.panic # "" THEN <<Panic(array.panic)>>
                     ELSE formatAssociations(array.id, depth)
              [] HasMethod(id, <<"AsArray">>) ->
                     IF array.panic # "" THEN <<Panic(array.panic)>>
                     ELSE formatSequence(array.id, depth)
              [] Len(heap[id].type.methods) > 0 -> formatInstance(id, depth)
              [] OTHER -> <<Invoke(heap[id].elem, depth)>>)
        \o <<Text(<<"](">> \o formatType(heap[id].type) \o <<")">>)>>

\* formatStructure annotating the record with the type of its first field.
formatStructureByField(id, depth) ==
    LET fields == VisibleFields(heap[id].type, {})
        line(index) ==
            << Text(formatNewline(depth + 1)),
               Text(<<fields[index].name, ": ">>),
               IF ~fields[index].exported THEN Text(<<"<private>">>)
               ELSE IF index > Len(heap[id].fields)
               THEN Panic("reflect: Field index out of range")
               ELSE Invoke(heap[id].fields[index], depth + 1) >>
        annotated == IF Len(fields) > 0 THEN fields[1].type ELSE heap[id].type
    IN  <<Text(<<"[">>)>>
        \o (IF depth < maximumDepth
            THEN Flatten([index \in 1..Len(fields) |-> line(index)]) \o <<Text(formatNewline(depth))>>
            ELSE <<Text(<<"...">>)>>)
        \o <<Text(<<"](">> \o formatType(annotated) \o <<")">>)>>

formatStructure(id, depth) ==
    LET fields == VisibleFields(heap[id].type, {})
        line(index) ==
            << Text(formatNewline(depth + 1)),
               Text(<<fields[index].name, ": ">>),
               IF ~fields[index].exported THEN Text(<<"<private>">>)
               ELSE IF index > Len(heap[id].fields)
               THEN Panic("reflect: Field index out of range")
               ELSE Invoke(heap[id].fields[index], depth + 1) >>
    IN  <<Text(<<"[">>)>>
        \o (IF depth < maximumDepth
            THEN Flatten([index \in 1..Len(fields) |-> line(index)]) \o <<Text(formatNewline(depth))>>
            ELSE <<Text(<<"...">>)>>)
        \o <<Text(<<"](">> \o formatType(heap[id].type) \o <<")">>)>>

formatValue(id, depth) ==
    LET kind == Kind(id)
    IN  CASE kind = "Invalid" -> <<Text(<<"<nil>">>)>>
          [] kind = "Bool" -> <<Text(<<formatBoolean(id)>>)>>
          [] kind \in {"Uint", "Uint8", "Uint16", "Uint32", "Uint64", "Uintptr"} ->
                 <<Text(<<formatUnsigned(id)>>)>>
          [] kind \in {"Int", "Int8", "Int16", "Int64"} ->
                 <<Text(<<formatInteger(id)>>)>>
          [] kind \in {"Float32", "Float64"} -> <<Text(<<formatFloat(id)>>)>>
          [] kind \in {"Complex64", "Complex128"} -> <<Text(<<formatComplex(id)>>)>>
          [] kind = "Int32" -> <<Text(<<formatRune(id)>>)>>
          [] kind = "String" -> <<Text(<<formatString(id)>>)>>
          [] kind = "Func" -> formatFunction(id)
          [] kind = "Chan" -> formatChannel(id, depth)
          [] kind \in {"Array", "Slice"} -> formatArray(id, depth)
          [] kind = "Map" -> formatMap(id, depth)
          [] kind = "Struct" -> formatStructure(id, depth)
          [] kind = "Pointer" -> formatPointer(id, depth)
          [] kind = "Interface" -> formatInterface(id, depth)
          [] kind = "UnsafePointer" -> <<Text(<<"<unsafe>">>)>>
          [] OTHER -> <<Panic("Attempted to format an unsupported type")>>

\* ------------------------------------------------------------------------
\* The program: Format is called, any number of times, on one value, while
\* the Go runtime is free to yield the keys of each map in any order.
\* ------------------------------------------------------------------------

\* The outcome of a Format call: st is "ok" (out is the text returned),
\* "panic" (err is the message) or "overflow" (the stack is exhausted);
\* "running" while the call is in progress and "none" before the first call.
Outcome(st, out, err) == [st |-> st, out |-> out, err |-> err]

\* A frame of the call stack: formatValue(id, depth), the steps it has yet
\* to take, and the text of its result so far.
Frame(id, depth) ==
    [id |-> id, depth |-> depth, todo |-> formatValue(id, depth), out |-> <<>>]

\* The nodes a node refers to.
Refs(id) ==
    LET node == heap[id]
        fields == DOMAIN node
        range(f) == {f[i] : i \in DOMAIN f}
    IN  (IF "elems" \in fields THEN range(node.elems) ELSE {})
        \cup (IF "fields" \in fields THEN range(node.fields) ELSE {})
        \cup (IF "keys" \in fields THEN range(node.keys) \cup range(node.vals) ELSE {})
        \cup (IF "results" \in fields THEN range(node.results) ELSE {})
        \cup (IF "elem" \in fields THEN {node.elem} ELSE {})

RECURSIVE Reach(_)
Reach(ids) ==
    LET more == ids \cup UNION {Refs(id) : id \in ids \ {Nil}}
    IN  IF more = ids THEN ids ELSE Reach(more)

\* reflect.Value.MapKeys: the keys of a map, in an unspecified order.
MapKeys(map_) ==
    LET keys == heap[map_].keys
        n == Len(keys)
    IN  {[i \in 1..n |-> keys[p[i]]] :
            p \in {q \in [1..n -> 1..n] : \A i, j \in 1..n : i # j => q[i] # q[j]}}

Init ==
    /\ heap = Heap
    /\ value \in DOMAIN Values \cup {Nil}
    /\ storage = [m \in DOMAIN Maps |-> Heap[m].keys]
    /\ frames = <<>>
    /\ result = Outcome("none", <<>>, "")
    /\ previous = Outcome("none", <<>>, "")
    /\ calls = <<>>
    /\ alone = <<>>
    /\ consulted = {}
    /\ call = NoCall
    /\ memory = <<>>
    /\ held = <<>>
    /\ controller = NoController
    /\ iterator = NoIterator
    /\ loop = NoLoop

\* Between two calls, the runtime yields the keys of a map that Format can
\* meet in value in another order.
Rehash ==
    /\ frames = <<>>
    /\ \E m \in DOMAIN Maps \cap Reach({value}) :
        \E keys \in MapKeys(m) :
            /\ keys # storage[m]
            /\ storage' = [storage EXCEPT ![m] = keys]
    /\ UNCHANGED <<heap, value, frames, result, previous, outsideFormat>>

\* Format(value) is called: format calls formatValue(reflected, 0).
Format ==
    /\ frames = <<>>
    /\ frames' = <<Frame(value, 0)>>
    /\ previous' = result
    /\ result' = Outcome("running", <<>>, "")
    /\ UNCHANGED <<heap, value, storage, outsideFormat>>

\* The running function appends a text to its result.
Write ==
    /\ frames # <<>>
    /\ LET top == frames[Len(frames)]
       IN  /\ top.todo # <<>>
           /\ Head(top.todo).op = "text"
           /\ frames' = [frames EXCEPT ![Len(frames)] =
                            [top EXCEPT !.todo = Tail(@),
                                        !.out = @ \o Head(top.todo).out]]
    /\ UNCHANGED <<heap, value, storage, result, previous, outsideFormat>>

\* The running function calls formatValue; the stack may have no room left.
Enter ==
    /\ frames # <<>>
    /\ LET top == frames[Len(frames)]
       IN  /\ top.todo # <<>>
           /\ Head(top.todo).op = "call"
           /\ IF Len(frames) < MaxStack
              THEN /\ frames' = Append(frames, Frame(Head(top.todo).id,
                                                      Head(top.todo).depth))
                   /\ UNCHANGED result
              ELSE /\ frames' = <<>>
                   /\ result' = Outcome("overflow", <<>>, "stack overflow")
    /\ UNCHANGED <<heap, value, storage, previous, outsideFormat>>

\* The running function returns its result: to its caller, which appends it,
\* or to the caller of Format.
Return ==
    /\ frames # <<>>
    /\ LET n == Len(frames)
           top == frames[n]
       IN  /\ top.todo = <<>>
           /\ IF n = 1
              THEN /\ frames' = <<>>
                   /\ result' = Outcome("ok", top.out, "")
              ELSE /\ frames' = [SubSeq(frames, 1, n - 1) EXCEPT ![n - 1] =
                                    [@ EXCEPT !.todo = Tail(@),
                                              !.out = @ \o top.out]]
                   /\ UNCHANGED result
    /\ UNCHANGED <<heap, value, storage, previous, outsideFormat>>

\* The running function panics: the panic unwinds the whole call.
Fail ==
    /\ frames # <<>>
    /\ LET top == frames[Len(frames)]
       IN  /\ top.todo # <<>>
           /\ Head(top.todo).op = "panic"
           /\ result' = Outcome("panic", <<>>, Head(top.todo).out[1])
    /\ frames' = <<>>
    /\ UNCHANGED <<heap, value, storage, previous, outsideFormat>>

Next == Rehash \/ Format \/ Write \/ Enter \/ Return \/ Fail

Spec == Init /\ [][Next]_vars

\* ------------------------------------------------------------------------
\* Properties of Format
\* ------------------------------------------------------------------------

\* The call of Format has returned, panicked or exhausted the stack.
Finished == frames = <<>> /\ result.st \notin {"none", "running"}

Pieces(out) == {out[i] : i \in 1..Len(out)}

\* The kinds the less function compares by value: ranks 0 to 15 of typeMap.
Sortable ==
    {"Bool", "Uint8", "Uint16", "Uint32", "Uint64", "Uint", "Int8", "Int16",
     "Int64", "Int", "Float32", "Float64", "Complex64", "Complex128", "Int32",
     "String"}

\* The kinds of the other ranks of typeMap.
Unsortable ==
    {"Func", "Chan", "Array", "Slice", "Map", "Struct", "Pointer", "Interface",
     "Uintptr", "UnsafePointer"}

KeyKind(key) == Kind(Unwrapped(key))

Top == frames[Len(frames)]

\* A step of the sequence panics.
Fails(steps) == \E i \in 1..Len(steps) : steps[i].op = "panic"

\* The keys formatMap renders, in the order of their lines: each line is a
\* new line, the key, ": " and the value.
RenderedKeys(steps) == [j \in 1..((Len(steps) - 3) \div 4) |-> steps[4 * j - 1].id]

\* C1: two calls of Format on the same value that both return, return the
\* same text, whatever order the storage yields the keys of its maps in
\* between.
FormatIsDeterministic ==
    (Finished /\ result.st = "ok" /\ previous.st = "ok")
        => result.out = previous.out

\* The value is part of a cycle: it can be reached from what it refers to.
Cyclic(id) == id # Nil /\ id \in Reach(Refs(id))

\* C2: Format never recurses without bound: a call of formatValue nested in
\* a call for the same value is at a greater depth; and for a cyclic value
\* Format returns a text that has the truncation marker "..." in it.
CyclesAreTruncated ==
    /\ \A i, j \in 1..Len(frames) :
           (i < j /\ frames[i].id = frames[j].id)
               => frames[i].depth < frames[j].depth
    /\ (Finished /\ Cyclic(value))
           => (result.st = "ok" /\ "..." \in Pieces(result.out))

\* Every map that Format can meet in value has keys of sortable kinds only.
KeysAreSortable ==
    \A m \in DOMAIN Maps \cap Reach({value}) :
        \A i \in 1..Len(heap[m].keys) : KeyKind(heap[m].keys[i]) \in Sortable

\* C3: Format is total: on every value whose maps have keys of sortable
\* kinds only, the call returns a text.
FormatIsTotal == (Finished /\ KeysAreSortable) => result.st = "ok"

\* C4, as stated: formatting a non-empty map that has a key of an unsortable
\* kind always ends in the panic of the key sorter.
UnsortableKeyAlwaysFails ==
    (/\ Finished
     /\ Kind(value) = "Map"
     /\ \E i \in 1..Len(heap[value].keys) :
            KeyKind(heap[value].keys[i]) \in Unsortable)
        => (/\ result.st = "panic"
            /\ result.err = "Attempted to compare an unknown key type")

\* Two keys of the map are of the same unsortable kind.
SameUnsortableKind(keys) ==
    \E i, j \in 1..Len(keys) :
        /\ i # j
        /\ KeyKind(keys[i]) = KeyKind(keys[j])
        /\ KeyKind(keys[i]) \in Unsortable

\* C4, amended: for every map the renderer meets, formatMap panics exactly
\* when the map is met above the depth ceiling and two of its keys are of the
\* same unsortable kind; otherwise, above the ceiling, every key of the map
\* is rendered on a line of its own, none omitted.
SorterFailsOnSameKindOnly ==
    \A i \in 1..Len(frames) :
        LET f == frames[i]
            keys == heap[f.id].keys
            steps == formatMap(f.id, f.depth)
            rendered == RenderedKeys(steps)
        IN  Kind(f.id) = "Map" =>
                /\ Fails(steps) <=>
                       (f.depth < maximumDepth /\ SameUnsortableKind(keys))
                /\ (~Fails(steps) /\ f.depth < maximumDepth) =>
                       /\ Len(rendered) = Len(keys)
                       /\ Pieces(rendered) = Pieces(keys)

\* C4, witness: a map whose keys are a pointer, a text, a channel and an
\* unsafe pointer has been rendered, and Format has returned its text.
UnsortableKeysRendered ==
    /\ Finished
    /\ value = "opaque"
    /\ result.st = "ok"
    /\ "<unsafe>" \in Pieces(result.out)

\* The order the specification gives for two keys: by rank, and for equal
\* ranks by value.
Precedes(first, second) ==
    LET firstKey == Unwrapped(first)
        secondKey == Unwrapped(second)
        kind == Kind(firstKey)
        x == heap[firstKey]
        y == heap[secondKey]
    IN  \/ TypeRank(kind) < TypeRank(Kind(secondKey))
        \/ /\ TypeRank(kind) = TypeRank(Kind(secondKey))
           /\ CASE kind = "Bool" -> ~x.b \/ y.b
                [] kind \in {"Float32", "Float64"} ->
                       ~x.nan /\ ~y.nan /\ x.n <= y.n
                [] kind \in {"Complex64", "Complex128"} ->
                       x.re * x.re + x.im * x.im <= y.re * y.re + y.im * y.im
                [] kind = "String" -> ~LexLess(CodePoints(y.s), CodePoints(x.s))
                [] OTHER -> x.n <= y.n

\* C5: for every map the renderer meets above the depth ceiling whose keys
\* are all of sortable kinds, any two consecutive rendered keys are in the
\* order of the rank table, and in value order when their ranks are equal.
KeysAreRenderedInOrder ==
    \A i \in 1..Len(frames) :
        LET f == frames[i]
            keys == heap[f.id].keys
            rendered == RenderedKeys(formatMap(f.id, f.depth))
        IN  (/\ Kind(f.id) = "Map"
             /\ f.depth < maximumDepth
             /\ \A k \in 1..Len(keys) : KeyKind(keys[k]) \in Sortable)
                => \A j \in 1..(Len(rendered) - 1) :
                       Precedes(rendered[j], rendered[j + 1])

\* The value is a non-empty sequence or map, a record, or a reference with a
\* non-empty accessor surface.
Truncated(id) ==
    CASE Kind(id) \in {"Array", "Slice"} -> Len(heap[id].elems) > 0
      [] Kind(id) = "Map" -> Len(heap[id].keys) > 0
      [] Kind(id) = "Struct" -> TRUE
      [] Kind(id) = "Pointer" ->
             IF HasMethod(id, <<"AsArray">>)
             THEN Len(heap[Call(id, <<"AsArray">>).id].elems) > 0
             ELSE ~HasMethod(id, <<"Get", "Keys">>)
                  /\ Len(heap[id].type.methods) > 0
      [] OTHER -> FALSE

\* C6: formatValue is never called with a depth greater than maximumDepth,
\* and a non-empty sequence or map, a record, or an accessor surface met at
\* depth maximumDepth calls formatValue no further: its rendering is its
\* opening bracket, "..." and its closing annotation.
DepthCeiling ==
    \A i \in 1..Len(frames) :
        LET f == frames[i]
            whole == f.out \o Flatten([k \in 1..Len(f.todo) |-> f.todo[k].out])
            bracket == IF Kind(f.id) = "Pointer" THEN "&[" ELSE "["
        IN  /\ f.depth <= maximumDepth
            /\ (f.depth = maximumDepth /\ Truncated(f.id)) =>
                   /\ \A k \in 1..Len(f.todo) : f.todo[k].op = "text"
                   /\ whole = <<bracket, "...", "](">>
                              \o formatType(heap[f.id].type) \o <<")">>

\* C6, witness: a sequence, a map and an instance met at depth maximumDepth
\* have been rendered.
CeilingReached ==
    /\ Finished
    /\ value = "nest1"
    /\ result.st = "ok"
    /\ \E i \in 1..Len(result.out) :
           /\ result.out[i] = "&["
           /\ result.out[i + 1] = "..."

\* The number of indentations that follow the new line at position i.
Indent(out, i) ==
    CHOOSE k \in 0..(Len(out) - i) :
        /\ \A j \in 1..k : out[i + j] = "    "
        /\ (i + k = Len(out) \/ out[i + k + 1] # "    ")

\* The composites with lines opened, and closed, before position i.
Opened(out, i) ==
    Cardinality({j \in 1..(i - 1) :
        j < Len(out) /\ out[j] \in {"[", "&["} /\ out[j + 1] = "\n"})
Closed(out, i) ==
    Cardinality({j \in 2..(i - 1) :
        out[j] = "](" /\ out[j - 1] \in {"\n", "    "}})

\* The text rendered at a depth is indented: a line in a composite opened at
\* depth d starts with d + 1 indentations, the line of its closing bracket
\* with d; every composite with lines is closed on a line of its own; and
\* the text does not end with a new line.
Indented(out, depth) ==
    /\ out[Len(out)] \notin {"\n", "    "}
    /\ Opened(out, Len(out) + 1) = Closed(out, Len(out) + 1)
    /\ \A i \in 1..Len(out) :
           out[i] = "\n" =>
               LET k == Indent(out, i)
                   level == depth + Opened(out, i) - Closed(out, i)
               IN  /\ i + k < Len(out)
                   /\ k = IF out[i + k + 1] = "](" THEN level - 1 ELSE level

\* C7: whatever formatValue returns for a value at a depth is indented for
\* that depth, and so is the text Format returns, for depth 0: four spaces
\* for each level, d + 1 levels before each line of a composite opened at
\* depth d and d levels before its closing bracket, no new line at the end.
IndentationHolds ==
    /\ (frames # <<>> /\ Top.todo = <<>>) => Indented(Top.out, Top.depth)
    /\ (Finished /\ result.st = "ok") => Indented(result.out, 0)

\* C7, witness: Format has returned a text with a line three levels deep
\* that is followed by another line.
NestedLinesRendered ==
    /\ Finished
    /\ result.st = "ok"
    /\ \E i \in 1..Len(result.out) :
           /\ result.out[i] = "\n"
           /\ Indent(result.out, i) = 3
           /\ \E j \in (i + 1)..Len(result.out) : result.out[j] = "\n"

\* C8: whatever formatValue returns for a sequence, a map or a record, at any
\* depth, ends with "](" T ")" where T is what formatType returns for the
\* type of that value.
AnnotationMatches ==
    (frames # <<>> /\ Top.todo = <<>>
     /\ Kind(Top.id) \in {"Array", "Slice", "Map", "Struct"})
        => LET typeName == formatType(heap[Top.id].type)
               n == Len(Top.out)
           IN  /\ n >= Len(typeName) + 2
               /\ SubSeq(Top.out, n - Len(typeName) - 1, n)
                      = <<"](">> \o typeName \o <<")">>

\* C8, witness: a record met at depth maximumDepth has been rendered, its
\* body truncated.
TruncatedRecordRendered ==
    /\ frames # <<>>
    /\ Top.todo = <<>>
    /\ Top.depth = maximumDepth
    /\ Kind(Top.id) = "Struct"
    /\ "..." \in Pieces(Top.out)

\* What formatPointer appends between "&[" and the closing annotation.
Surface(steps) == SubSeq(steps, 2, Len(steps) - 1)

\* C9, as stated: a reference that has the method AsArray is rendered as the
\* sequence of the values AsArray returns, whether it has GetKeys or not.
SequenceAccessorFirst ==
    \A i \in 1..Len(frames) :
        LET f == frames[i]
        IN  (Kind(f.id) = "Pointer" /\ HasMethod(f.id, <<"AsArray">>))
                => Surface(formatValue(f.id, f.depth))
                       = formatSequence(Call(f.id, <<"AsArray">>).id, f.depth)

\* C9, amended: formatPointer probes for GetKeys first and renders what
\* AsArray returns as a list of associations (it panics when the reference
\* has no AsArray); failing that it probes for AsArray and renders a sequence
\* of values; failing that, a reference with methods is rendered by its
\* getters; and a reference without methods is dereferenced.
AssociationAccessorFirst ==
    \A i \in 1..Len(frames) :
        LET f == frames[i]
            surface == Surface(formatValue(f.id, f.depth))
            keys == HasMethod(f.id, <<"Get", "Keys">>)
            array == HasMethod(f.id, <<"AsArray">>)
            values == Call(f.id, <<"AsArray">>).id
        IN  Kind(f.id) = "Pointer" =>
                CASE keys /\ array -> surface = formatAssociations(values, f.depth)
                  [] keys /\ ~array -> Fails(surface)
                  [] ~keys /\ array -> surface = formatSequence(values, f.depth)
                  [] OTHER ->
                         IF Len(heap[f.id].type.methods) > 0
                         THEN surface = formatInstance(f.id, f.depth)
                         ELSE surface = <<Invoke(heap[f.id].elem, f.depth)>>

\* C9, witness: a reference with both GetKeys and AsArray has been rendered,
\* with a key and a value on each line.
AssociationsRendered ==
    /\ Finished
    /\ value = "mapObject"
    /\ HasMethod(value, <<"Get", "Keys">>)
    /\ HasMethod(value, <<"AsArray">>)
    /\ result.st = "ok"
    /\ ": " \in Pieces(result.out)

\* A type and the types it is made of.
Components(type) ==
    {type}
    \cup (IF "elem" \in DOMAIN type THEN {type.elem} ELSE {})
    \cup (IF "key" \in DOMAIN type THEN {type.key} ELSE {})
    \cup (IF "ins" \in DOMAIN type THEN Pieces(type.ins) \cup Pieces(type.outs)
          ELSE {})

\* The types of the values the renderer has met, and their components.
TypesMet ==
    UNION {Components(heap[frames[i].id].type) :
               i \in {j \in 1..Len(frames) : frames[j].id # Nil}}

\* C10, as stated: formatType renders every type that a program has declared
\* with a name as that name.
NamedTypesRenderTheirName ==
    \A type \in TypesMet :
        (type.name # "" /\ type.kind # "UnsafePointer")
            => formatType(type) = <<type.name>>

\* C10, amended: formatType renders a named type as its name when its kind
\* is a record, an interface or a scalar; a named type whose kind is
\* pointer, function, channel, array, slice or map is rendered in the
\* structural form of the unnamed type, and its name does not appear.
NamedTypesRenderByKind ==
    \A type \in TypesMet :
        type.name # "" =>
            CASE type.kind \in {"Pointer", "Func", "Chan", "Array", "Slice", "Map"} ->
                     /\ formatType(type) = formatType([type EXCEPT !.name = ""])
                     /\ formatType(type) # <<type.name>>
              [] type.kind = "UnsafePointer" -> formatType(type) = <<"<unsafe>">>
              [] OTHER -> formatType(type) = <<type.name>>

\* C10, witness: a sequence of the named type Array has been rendered, and
\* annotated in the structural form.
NamedSequenceRendered ==
    /\ Finished
    /\ value = "strings"
    /\ heap[value].type.name = "Array"
    /\ result.st = "ok"
    /\ "array[" \in Pieces(result.out)

\* reflect.Value.FieldByName: the value of the visible field of that name,
\* a direct field of the record or one promoted from an embedded record.
RECURSIVE FieldByName(_, _)
FieldByName(id, name) ==
    LET fields == heap[id].type.fields
        direct == {i \in 1..Len(fields) : fields[i].name = name}
        embedded == {i \in 1..Len(fields) :
                        /\ fields[i].embedded
                        /\ fields[i].type.kind = "Struct"
                        /\ \E k \in 1..Len(VisibleFields(fields[i].type, {})) :
                               VisibleFields(fields[i].type, {})[k].name = name}
    IN  IF direct # {} THEN heap[id].fields[CHOOSE i \in direct : TRUE]
        ELSE FieldByName(heap[id].fields[CHOOSE i \in embedded : TRUE], name)

\* C11: for every record the renderer meets above the depth ceiling,
\* formatStructure renders one line for each visible field, promoted fields
\* included: the name of the field, ": ", and the rendering of the value of
\* that very field when it is exported, "<private>" when it is not.
RecordLinesShowTheirFields ==
    \A i \in 1..Len(frames) :
        LET f == frames[i]
            fields == VisibleFields(heap[f.id].type, {})
            steps == formatStructure(f.id, f.depth)
        IN  (Kind(f.id) = "Struct" /\ f.depth < maximumDepth) =>
                /\ Len(steps) = 3 * Len(fields) + 3
                /\ \A j \in 1..Len(fields) :
                       /\ steps[3 * j] = Text(<<fields[j].name, ": ">>)
                       /\ steps[3 * j + 1] =
                              IF fields[j].exported
                              THEN Invoke(FieldByName(f.id, fields[j].name),
                                          f.depth + 1)
                              ELSE Text(<<"<private>">>)

\* The object has the method, which takes no argument and returns a value.
Exposes(id, name) == id # Nil /\ Call(id, name).panic = ""

\* C29: when a reference has GetKeys, and AsArray returning a list of
\* objects that have GetKey and GetValue, and the renderer meets it above
\* the depth ceiling, what it renders between "&[" and the annotation is,
\* for each association of the list in the order of the list, a new line,
\* the key, ": " and the value, and then the new line of the closing
\* bracket: no association is moved, left out or rendered twice.
AssociationsKeepOrder ==
    \A i \in 1..Len(frames) :
        LET f == frames[i]
            list == Call(f.id, <<"AsArray">>).id
            elems == heap[list].elems
            size == Len(elems)
            surface == Surface(formatValue(f.id, f.depth))
        IN  (/\ Kind(f.id) = "Pointer"
             /\ HasMethod(f.id, <<"Get", "Keys">>)
             /\ Exposes(f.id, <<"AsArray">>)
             /\ Kind(list) \in {"Slice", "Array"}
             /\ \A j \in 1..size : /\ Exposes(elems[j], <<"Get", "Key">>)
                                   /\ Exposes(elems[j], <<"Get", "Value">>)
             /\ size > 0
             /\ f.depth < maximumDepth)
            => /\ Len(surface) = 4 * size + 1
               /\ \A j \in 1..size :
                     /\ surface[4 * j - 3] = Text(formatNewline(f.depth + 1))
                     /\ surface[4 * j - 2] =
                            Invoke(Call(elems[j], <<"Get", "Key">>).id, f.depth + 1)
                     /\ surface[4 * j - 1] = Text(<<": ">>)
                     /\ surface[4 * j] =
                            Invoke(Call(elems[j], <<"Get", "Value">>).id, f.depth + 1)
               /\ surface[4 * size + 1] = Text(formatNewline(f.depth))

\* Format has returned the text of a list of two associations whose keys
\* are "b" and "a", in that order: "b" comes first in the text.
AssociationsInListOrder ==
    /\ Finished
    /\ value = "mapObject"
    /\ heap["associations"].elems = <<"two=2", "one=1">>
    /\ result.st = "ok"
    /\ \E i \in 1..Len(result.out) :
          /\ result.out[i] = "\"b\""
          /\ \E j \in (i + 1)..Len(result.out) : result.out[j] = "\"a\""

\* ------------------------------------------------------------------------
\* Two concurrent calls of Format.  Each goroutine has its own stack: the
\* formatter keeps its text and its depth in locals and parameters.  The
\* heap, the order in which the maps yield their keys and the package-level
\* table typeMap are what the goroutines have in common.
\* ------------------------------------------------------------------------

Goroutines == {1, 2}

\* The values handed to the two calls.
Handed == {"ints", "mixed", "twoPointers", "outer", "slicePointer", "mapObject"}

\* The package-level variables formatValue(id, depth) reads itself: formatMap
\* sorts the keys of a map it renders, and less looks typeMap up.
Globals(id, depth) ==
    IF /\ Kind(id) = "Map"
       /\ Len(heap[id].keys) > 0
       /\ depth < maximumDepth
       /\ SliceStable(storage[id]).ranked
    THEN {"typeMap"} ELSE {}

\* A callee that takes its depth from a counter of the calls in progress in
\* the whole process.
CalleeAtSharedDepth(running) ==
    LET step == Head(running.frames[Len(running.frames)].todo)
    IN  Frame(step.id, Len(calls[1].frames) + Len(calls[2].frames))

\* The frame of the formatValue(value, depth) the running function calls:
\* the value and the depth are its arguments.
Callee(running) ==
    LET step == Head(running.frames[Len(running.frames)].todo)
    IN  Frame(step.id, step.depth)

\* One step of a call in progress: what Write, Enter, Return and Fail do to
\* the stack and the outcome of the goroutine that takes it.
Step(running) ==
    LET n == Len(running.frames)
        top == running.frames[n]
        step == Head(top.todo)
    IN  IF top.todo = <<>>
        THEN IF n = 1
             THEN [running EXCEPT !.frames = <<>>,
                               !.result = Outcome("ok", top.out, "")]
             ELSE [running EXCEPT !.frames =
                      [SubSeq(running.frames, 1, n - 1) EXCEPT ![n - 1] =
                          [@ EXCEPT !.todo = Tail(@), !.out = @ \o top.out]]]
        ELSE CASE step.op = "text" ->
                      [running EXCEPT !.frames[n] =
                          [top EXCEPT !.todo = Tail(@), !.out = @ \o step.out]]
               [] step.op = "call" ->
                      IF n < MaxStack
                      THEN [running EXCEPT !.frames = Append(@, Callee(running))]
                      ELSE [running EXCEPT !.frames = <<>>,
                                        !.result = Outcome("overflow", <<>>,
                                                           "stack overflow")]
               [] step.op = "panic" ->
                      [running EXCEPT !.frames = <<>>,
                                   !.result = Outcome("panic", <<>>, step.out[1])]

\* The nodes with storage of their own that a value reaches.
Objects(id) == Reach({id}) \cap DOMAIN (Sequences_ @@ Maps @@ Records @@ References)

Idle(id) ==
    [value |-> id, frames |-> <<>>, result |-> Outcome("none", <<>>, ""),
     solo |-> FALSE, interleaved |-> FALSE]

InitCalls ==
    /\ heap = Heap
    /\ storage = [m \in DOMAIN Maps |-> Heap[m].keys]
    /\ value = Nil
    /\ frames = <<>>
    /\ result = Outcome("none", <<>>, "")
    /\ previous = Outcome("none", <<>>, "")
    /\ \E first, second \in Handed :
          /\ Objects(first) \cap Objects(second) = {}
          /\ calls = [t \in Goroutines |-> Idle(IF t = 1 THEN first ELSE second)]
    /\ alone = [t \in Goroutines |-> Outcome("none", <<>>, "")]
    /\ consulted = {}
    /\ call = NoCall
    /\ memory = <<>>
    /\ held = <<>>
    /\ controller = NoController
    /\ iterator = NoIterator
    /\ loop = NoLoop

\* A goroutine calls Format while the other one is not running.
CallAlone(t) ==
    /\ \A u \in Goroutines : calls[u].frames = <<>>
    /\ alone[t].st = "none"
    /\ calls' = [calls EXCEPT ![t] =
                    [@ EXCEPT !.frames = <<Frame(calls[t].value, 0)>>,
                              !.result = Outcome("running", <<>>, ""),
                              !.solo = TRUE]]
    /\ consulted' = consulted \cup Globals(calls[t].value, 0)
    /\ UNCHANGED <<heap, storage, alone, outsideCalls>>

\* A goroutine calls Format, whatever the other one is doing.
CallTogether(t) ==
    /\ \A u \in Goroutines : alone[u].st # "none"
    /\ calls[t].frames = <<>>
    /\ calls[t].result.st = "none"
    /\ calls' = [calls EXCEPT ![t] =
                    [@ EXCEPT !.frames = <<Frame(calls[t].value, 0)>>,
                              !.result = Outcome("running", <<>>, ""),
                              !.solo = FALSE]]
    /\ consulted' = consulted \cup Globals(calls[t].value, 0)
    /\ UNCHANGED <<heap, storage, alone, outsideCalls>>

\* The scheduler lets a goroutine take the next step of its call.
Run(t) ==
    /\ calls[t].frames # <<>>
    /\ \E after \in {Step(calls[t])} :
       LET top == calls[t].frames[Len(calls[t].frames)]
           busy == \E u \in Goroutines \ {t} : calls[u].frames # <<>>
       IN  /\ consulted' = consulted \cup
                  (IF top.todo # <<>> /\ Head(top.todo).op = "call"
                      /\ after.frames # <<>>
                   THEN Globals(Head(top.todo).id, Head(top.todo).depth)
                   ELSE {})
           /\ IF after.frames = <<>> /\ calls[t].solo
              THEN /\ alone' = [alone EXCEPT ![t] = after.result]
                   /\ calls' = [calls EXCEPT ![t] = Idle(calls[t].value)]
              ELSE /\ calls' = [calls EXCEPT ![t] =
                                   [after EXCEPT !.interleaved = @ \/ busy]]
                   /\ UNCHANGED alone
    /\ UNCHANGED <<heap, storage, outsideCalls>>

NextCalls ==
    \E t \in Goroutines : CallAlone(t) \/ CallTogether(t) \/ Run(t)

Reentrant == InitCalls /\ [][NextCalls]_vars

\* The call of goroutine t, made while the other goroutine may run, is over.
Over(t) ==
    /\ calls[t].frames = <<>>
    /\ calls[t].result.st \notin {"none", "running"}

Keys == {"a", "b", "c"}
Elements == {"0", "1", "NaN"}

\* The zero value of the element type.
Zero == "0"

\* The longest array handed to ArraysAreEqual.
MaxLen == 2

IntBits == 4

MaxUint == 2 ^ IntBits - 1
MaxInt == 2 ^ (IntBits - 1) - 1
MinInt == -(2 ^ (IntBits - 1))

ArraysOf(n) == UNION {[1..k -> Elements] : k \in 0..n}
MapsOf(keys) == UNION {[present -> Elements] : present \in SUBSET keys}

\* Go's x != y on V: a NaN differs from every value, itself included.
NotEqual(x, y) == x # y \/ x = "NaN" \/ y = "NaN"

\* map_[key]: the value under the key, the zero value when the key is absent.
Index(map_, key) == IF key \in DOMAIN map_ THEN map_[key] ELSE Zero

arraysAreEqual(first, second) ==
    IF Len(first) # Len(second) THEN FALSE
    ELSE \A index \in 1..Len(first) : ~NotEqual(first[index], second[index])

mapsAreEqual(first, second) ==
    IF Cardinality(DOMAIN first) # Cardinality(DOMAIN second) THEN FALSE
    ELSE \A key \in DOMAIN first : ~NotEqual(Index(second, key), first[key])

\* The int with the bits of the integer n: int(size), and the result of an
\* addition, a subtraction or a negation of ints.
ToInt(n) == ((n - MinInt) % 2 ^ IntBits) + MinInt

\* What a conversion does: it panics, or it returns an index.
Panicked == [panic |-> TRUE, index |-> 0]
Returned(index) == [panic |-> FALSE, index |-> index]

relativeToCardinal(relative, size) ==
    CASE size = 0 -> Panicked
      [] relative = 0 -> Panicked
      [] relative < ToInt(-ToInt(size)) \/ relative > ToInt(size) -> Panicked
      [] relative < 0 -> Returned(ToInt(relative + ToInt(size)))
      [] relative > 0 -> Returned(ToInt(relative - 1))
      [] OTHER -> Returned(-1)

cardinalToRelative(cardinal, size) ==
    CASE size = 0 -> Panicked
      [] cardinal >= ToInt(size) -> Panicked
      [] OTHER -> Returned(ToInt(cardinal + 1))

\* The values a caller can pass as an any: the nil interface, or a value of
\* a kind, of a named type or of the predeclared one, that is nil or not
\* (for the kinds that can be), of length 0 or 1 (for the kinds that have a
\* length; for an int, the integer itself).
Pointers == {"ptr", "interface", "slice", "map", "chan", "func"}
AnyOf(kind, named, nil, len) ==
    [kind |-> kind, named |-> named, nil |-> nil, len |-> len]
Anys ==
    {AnyOf("nil", FALSE, TRUE, 0)}
    \cup {AnyOf(kind, named, FALSE, len) :
            kind \in {"string", "int"}, named \in BOOLEAN, len \in 0..1}
    \cup {AnyOf("struct", TRUE, FALSE, 0)}
    \cup {AnyOf(kind, named, TRUE, 0) :
            kind \in Pointers \ {"interface"}, named \in BOOLEAN}
    \cup {AnyOf(kind, named, FALSE, len) :
            kind \in {"slice", "map"}, named \in BOOLEAN, len \in 0..1}
    \cup {AnyOf(kind, named, FALSE, 0) :
            kind \in {"ptr", "chan", "func"}, named \in BOOLEAN}

\* case string of the type switch takes a value whose type is string itself;
\* every other value is defined unless it is of a kind that can be nil, and
\* is nil.
isDefined(actual) ==
    IF actual.kind = "nil" THEN FALSE
    ELSE IF actual.kind = "string" /\ ~actual.named THEN actual.len > 0
    ELSE LET isPointer == actual.kind \in Pointers
             isNil == isPointer /\ actual.nil
         IN  ~isNil

\* A call that is about to be made, with its arguments.
Pending(op, first, second) ==
    [op |-> op, first |-> first, second |-> second, done |-> FALSE,
     returned |-> FALSE]

\* The calls a caller can make: two arrays, two maps, an int and a uint, or
\* any value.
Calls ==
    {Pending("ArraysAreEqual", first, second) :
        first \in ArraysOf(MaxLen), second \in ArraysOf(MaxLen)}
    \cup {Pending("MapsAreEqual", first, second) :
            first \in MapsOf(Keys), second \in MapsOf(Keys)}
    \cup {Pending(op, index, size) :
            op \in {"RelativeToCardinal", "CardinalToRelative"},
            index \in MinInt..MaxInt, size \in 0..MaxUint}
    \cup {Pending(op, actual, actual) :
            op \in {"IsDefined", "IsUndefined"}, actual \in Anys}

InitUtilities ==
    /\ heap = <<>>
    /\ storage = <<>>
    /\ value = Nil
    /\ frames = <<>>
    /\ result = Outcome("none", <<>>, "")
    /\ previous = Outcome("none", <<>>, "")
    /\ calls = <<>>
    /\ alone = <<>>
    /\ consulted = {}
    /\ call \in Calls
    /\ memory = <<>>
    /\ held = <<>>
    /\ controller = NoController
    /\ iterator = NoIterator
    /\ loop = NoLoop

ArraysAreEqual ==
    /\ call.op = "ArraysAreEqual"
    /\ ~call.done
    /\ call' = [call EXCEPT !.done = TRUE,
                            !.returned = arraysAreEqual(call.first, call.second)]
    /\ UNCHANGED <<memory, held, outsideComposite>>

MapsAreEqual ==
    /\ call.op = "MapsAreEqual"
    /\ ~call.done
    /\ call' = [call EXCEPT !.done = TRUE,
                            !.returned = mapsAreEqual(call.first, call.second)]
    /\ UNCHANGED <<memory, held, outsideComposite>>

\* RelativeToCardinal(relative, size): first is the index, second the size.
RelativeToCardinal ==
    /\ call.op = "RelativeToCardinal"
    /\ ~call.done
    /\ call' = [call EXCEPT !.done = TRUE,
                            !.returned = relativeToCardinal(call.first, call.second)]
    /\ UNCHANGED <<memory, held, outsideComposite>>

\* CardinalToRelative(cardinal, size): first is the index, second the size.
CardinalToRelative ==
    /\ call.op = "CardinalToRelative"
    /\ ~call.done
    /\ call' = [call EXCEPT !.done = TRUE,
                            !.returned = cardinalToRelative(call.first, call.second)]
    /\ UNCHANGED <<memory, held, outsideComposite>>

\* IsDefined(value): first is the value.
IsDefined ==
    /\ call.op = "IsDefined"
    /\ ~call.done
    /\ call' = [call EXCEPT !.done = TRUE, !.returned = isDefined(call.first)]
    /\ UNCHANGED <<memory, held, outsideComposite>>

\* IsUndefined(value): first is the value.
IsUndefinedCalled ==
    /\ call.op = "IsUndefined"
    /\ ~call.done
    /\ call' = [call EXCEPT !.done = TRUE, !.returned = ~isDefined(call.first)]
    /\ UNCHANGED <<memory, held, outsideComposite>>

NextUtilities ==
    \/ ArraysAreEqual
    \/ MapsAreEqual
    \/ RelativeToCardinal
    \/ CardinalToRelative
    \/ IsDefined
    \/ IsUndefinedCalled

Utilities == InitUtilities /\ [][NextUtilities]_vars

\* The call of the utility op has returned or panicked.
Made(op) == call.op = op /\ call.done

\* C13: MapsAreEqual returns true if and only if the two maps have the same
\* key-value pairs: the same keys, and equal values under each key.
MapsAreEqualMeansSamePairs ==
    Made("MapsAreEqual") =>
        (call.returned <=>
            /\ DOMAIN call.first = DOMAIN call.second
            /\ \A key \in DOMAIN call.first :
                  ~NotEqual(call.first[key], call.second[key]))

\* C14: MapsAreEqual and ArraysAreEqual are symmetric and reflexive: the
\* answer is the same with the arguments swapped, and true for twice the
\* same argument.
EqualityIsSymmetricAndReflexive ==
    /\ Made("MapsAreEqual") =>
          /\ call.returned = mapsAreEqual(call.second, call.first)
          /\ call.first = call.second => call.returned
    /\ Made("ArraysAreEqual") =>
          /\ call.returned = arraysAreEqual(call.second, call.first)
          /\ call.first = call.second => call.returned

\* C16: for size >= 1, RelativeToCardinal returns r - 1 for a relative index
\* r in [1..size] and r + size for r in [-size..-1]: the result lies in
\* [0..size), and r and r - size - 1 give the same result.
RelativeToCardinalMapsOntoRange ==
    LET r == call.first
        size == call.second
    IN  (Made("RelativeToCardinal") /\ size >= 1) =>
            /\ (1 <= r /\ r <= size) =>
                  /\ call.returned = Returned(r - 1)
                  /\ r - size - 1 >= MinInt =>
                        relativeToCardinal(r - size - 1, size) = call.returned
            /\ (-size <= r /\ r <= -1) =>
                  call.returned = Returned(r + size)
            /\ (r # 0 /\ -size <= r /\ r <= size) =>
                  (0 <= call.returned.index /\ call.returned.index < size)

\* C17: RelativeToCardinal panics whenever size = 0, relative = 0,
\* relative < -size or relative > size, and returns an index for every
\* other input.
RelativeToCardinalFailsOutsideOnly ==
    LET relative == call.first
        size == call.second
    IN  Made("RelativeToCardinal") =>
            (call.returned.panic <=>
                \/ size = 0
                \/ relative = 0
                \/ relative < -size
                \/ relative > size)

\* C18: CardinalToRelative returns cardinal + 1 for 0 <= cardinal < size and
\* fails for every other input; it never returns zero or a negative index.
CardinalToRelativeIsPositive ==
    LET cardinal == call.first
        size == call.second
    IN  Made("CardinalToRelative") =>
            IF 0 <= cardinal /\ cardinal < size
            THEN call.returned = Returned(cardinal + 1)
            ELSE call.returned.panic

\* C19: for size >= 1 and a cardinal c in [0..size), converting c to a
\* relative index and back gives c; for a valid relative index r, converting
\* r to a cardinal and back gives r when r > 0 and r + size + 1 when r < 0.
IndexRoundTrip ==
    LET size == call.second
    IN  /\ (/\ Made("CardinalToRelative")
            /\ size >= 1
            /\ 0 <= call.first /\ call.first < size) =>
              /\ ~call.returned.panic
              /\ relativeToCardinal(call.returned.index, size)
                    = Returned(call.first)
        /\ (/\ Made("RelativeToCardinal")
            /\ size >= 1
            /\ call.first # 0
            /\ -size <= call.first /\ call.first <= size) =>
              /\ ~call.returned.panic
              /\ cardinalToRelative(call.returned.index, size)
                    = Returned(IF call.first > 0 THEN call.first
                               ELSE call.first + size + 1)

\* ------------------------------------------------------------------------
\* CombineArrays and the storage of slices.  A slice is a backing array and
\* a length; its capacity is the length of the backing array.  The caller
\* makes two slices, the first one with or without spare capacity, stores
\* elements through the slices it holds and combines them.
\* ------------------------------------------------------------------------

\* The longest slice the caller makes, the most spare capacity it gives it,
\* and the most slices it holds.
MaxMade == 1
MaxSpare == 1
MaxHeld == 4

Slice(array, len) == [array |-> array, len |-> len]

Cap(slice, arrays) == Len(arrays[slice.array])

\* The elements of a slice, the backing arrays being arrays.
Contents(slice, arrays) == SubSeq(arrays[slice.array], 1, slice.len)

\* make([]V, len, cap): a new backing array of zero values.
Make(cap) == [index \in 1..cap |-> Zero]

\* append(first, second...): what it returns, and the backing arrays
\* afterwards, when a new backing array it allocates has capacity grown.
\* The elements go to the spare capacity of first when they fit there.
append(first, second, grown) ==
    LET added == Contents(second, memory)
        total == first.len + second.len
    IN  IF total <= Cap(first, memory)
        THEN [returned |-> Slice(first.array, total),
              memory |-> [memory EXCEPT ![first.array] =
                             [index \in 1..Len(@) |->
                                 IF first.len < index /\ index <= total
                                 THEN added[index - first.len] ELSE @[index]]]]
        ELSE [returned |-> Slice(Len(memory) + 1, total),
              memory |-> Append(memory,
                                Contents(first, memory) \o added
                                \o Make(grown - total))]

combineArrays(first, second, grown) == append(first, second, grown)

InitArrays ==
    /\ heap = <<>>
    /\ storage = <<>>
    /\ value = Nil
    /\ frames = <<>>
    /\ result = Outcome("none", <<>>, "")
    /\ previous = Outcome("none", <<>>, "")
    /\ calls = <<>>
    /\ alone = <<>>
    /\ consulted = {}
    /\ call = NoCall
    /\ \E size \in 0..MaxMade, spare \in 0..MaxSpare, other \in 0..MaxMade :
          /\ memory = <<Make(size + spare), Make(other)>>
          /\ held = <<Slice(1, size), Slice(2, other)>>
    /\ controller = NoController
    /\ iterator = NoIterator
    /\ loop = NoLoop

\* The caller stores an element through a slice it holds.
Store ==
    /\ \E slot \in 1..Len(held) :
          \E index \in 1..held[slot].len :
             /\ memory[held[slot].array][index] = Zero
             /\ memory' = [memory EXCEPT ![held[slot].array][index] = "1"]
    /\ call' = NoCall
    /\ UNCHANGED <<held, outsideComposite>>

\* The caller combines two slices it holds and keeps the result.
CombineArrays ==
    /\ Len(held) < MaxHeld
    /\ \E first, second \in 1..Len(held) :
          \E grown \in {held[first].len + held[second].len,
                        held[first].len + held[second].len + 1} :
             LET combined == combineArrays(held[first], held[second], grown)
             IN  /\ memory' = combined.memory
                 /\ held' = Append(held, combined.returned)
                 /\ call' = [op |-> "CombineArrays", first |-> first,
                             second |-> second, returned |-> Len(held) + 1,
                             before |-> memory]
    /\ UNCHANGED outsideComposite

NextArrays == Store \/ CombineArrays

Arrays == InitArrays /\ [][NextArrays]_vars

\* C15: CombineArrays returns the elements of first followed by those of
\* second, leaves its arguments and every slice the caller held as they
\* were, and its result has no backing array in common with first.
CombinedSharesNothing ==
    call.op = "CombineArrays" =>
        /\ Contents(held[call.returned], memory) =
               Contents(held[call.first], call.before)
               \o Contents(held[call.second], call.before)
        /\ \A slot \in 1..Len(held) \ {call.returned} :
               Contents(held[slot], memory) = Contents(held[slot], call.before)
        /\ Cap(held[call.returned], memory) > 0 =>
               held[call.returned].array # held[call.first].array

\* ------------------------------------------------------------------------
\* The controller of controller.go: a state table with one row per state
\* and one column per event.  A State and an Event are strings of a named
\* type; the empty State is the invalid state.  The caller hands non-nil
\* events and transitions to the constructor.
\* ------------------------------------------------------------------------

States == {"", "on", "off"}
Events == {"go", "stop"}

\* The widest state table.
MaxWidth == 2

invalid == ""

\* The smallest number of rows createController accepts in a state table.
minimumHeight == 2

\* IsUndefined(state) for a State: isDefined takes a value of a named string
\* type for no string, and for no pointer, so that it is defined even when
\* it is empty.
IsUndefined(state) ==
    ~isDefined(AnyOf("string", TRUE, FALSE, IF state = "" THEN 0 ELSE 1))

Rows == UNION {[1..width -> States] : width \in 1..MaxWidth}

\* The state tables and the lists of events a caller can write: the tables
\* with no more rows than the smallest table createController accepts.
Tables ==
    UNION {[rows -> Rows] :
              rows \in {keys \in SUBSET States :
                           Cardinality(keys) <= minimumHeight}}
EventLists == UNION {[1..width -> Events] : width \in 0..MaxWidth}

\* Whether createController panics.
Rejected(events, transitions, initialState) ==
    \/ IsUndefined(initialState)
    \/ Cardinality(DOMAIN transitions) < minimumHeight
    \/ Len(events) < 1
    \/ \E state \in DOMAIN transitions : Len(transitions[state]) # Len(events)
    \/ ~\E candidate \in DOMAIN transitions :
            candidate = initialState /\ initialState # invalid

\* The index of the last event of events_ that is event.
eventIndexOfLast(event) ==
    LET found == {index \in 1..Len(controller.events_) :
                     controller.events_[index] = event}
    IN  IF found = {} THEN 0
        ELSE CHOOSE index \in found : \A other \in found : index >= other

\* A hasState that takes every state for a state of the table.
hasAnyState(state) == TRUE

\* The index of the first event of events_ that is event, counted from 1;
\* 0 when there is none.
eventIndex(event) ==
    LET found == {index \in 1..Len(controller.events_) :
                     controller.events_[index] = event}
    IN  IF found = {} THEN 0
        ELSE CHOOSE index \in found : \A other \in found : index <= other

hasState(state) == state \in DOMAIN controller.transitions_

InitController ==
    /\ heap = <<>>
    /\ storage = <<>>
    /\ value = Nil
    /\ frames = <<>>
    /\ result = Outcome("none", <<>>, "")
    /\ previous = Outcome("none", <<>>, "")
    /\ calls = <<>>
    /\ alone = <<>>
    /\ consulted = {}
    /\ memory = <<>>
    /\ held = <<>>
    /\ controller = NoController
    /\ iterator = NoIterator
    /\ loop = NoLoop
    /\ \E events \in EventLists, transitions \in Tables, initialState \in States :
          call = [op |-> "Controller", events |-> events,
                  transitions |-> transitions, initialState |-> initialState,
                  done |-> FALSE, panic |-> FALSE]

\* A Go map keeps no order of its keys: the first state of a table is one of
\* its keys, the same one each time the table is read.
state1(transitions) == CHOOSE state \in DOMAIN transitions : TRUE

\* A constructor that starts the machine in the first state of the table.
createControllerInFirstState(events, transitions, initialState) ==
    [made |-> TRUE, state_ |-> state1(transitions), events_ |-> events,
     transitions_ |-> transitions]

\* The instance createController returns when it does not panic.
createController(events, transitions, initialState) ==
    [made |-> TRUE, state_ |-> initialState, events_ |-> events,
     transitions_ |-> transitions]

\* Controller(events, transitions, initialState): createController panics,
\* or it returns a controller in its initial state.
Controller ==
    /\ call.op = "Controller"
    /\ ~call.done
    /\ IF Rejected(call.events, call.transitions, call.initialState)
       THEN /\ call' = [call EXCEPT !.done = TRUE, !.panic = TRUE]
            /\ UNCHANGED controller
       ELSE /\ call' = [call EXCEPT !.done = TRUE]
            /\ controller' = createController(call.events, call.transitions,
                                              call.initialState)
    /\ UNCHANGED outsideController

\* What a call of a method of the controller leaves in call: the state the
\* controller was in, the argument, the cell of the table that was read
\* (the invalid state when none was) and whether the call panicked.
Called(op, argument, cell, panic) ==
    [op |-> op, from |-> controller.state_, argument |-> argument,
     cell |-> cell, done |-> TRUE, panic |-> panic]

\* What a method does: whether it panics, the cell of the table it read and
\* returns (the invalid state when it read none), and the state it leaves
\* the controller in.
Done(panic, cell, state) == [panic |-> panic, cell |-> cell, state_ |-> state]

\* A ProcessEvent that makes the transition before it checks the next state.
processEventThenCheck(event) ==
    LET index == eventIndex(event)
        next == controller.transitions_[controller.state_][index]
    IN  IF index < 1 THEN Done(TRUE, invalid, controller.state_)
        ELSE IF ~hasState(next) THEN Done(TRUE, next, next)
        ELSE Done(FALSE, next, next)

processEvent(event) ==
    LET index == eventIndex(event)
        next == controller.transitions_[controller.state_][index]
    IN  IF index < 1 THEN Done(TRUE, invalid, controller.state_)
        ELSE IF ~hasState(next) THEN Done(TRUE, next, controller.state_)
        ELSE Done(FALSE, next, next)

setState(state) ==
    IF IsUndefined(state) \/ ~hasState(state)
    THEN Done(TRUE, invalid, controller.state_)
    ELSE Done(FALSE, invalid, state)

ProcessEvent ==
    /\ controller.made
    /\ \E event \in Events \cup {"halt"} :
          \E done \in {processEvent(event)} :
             /\ call' = Called("ProcessEvent", event, done.cell, done.panic)
             /\ controller' = [controller EXCEPT !.state_ = done.state_]
    /\ UNCHANGED outsideController

SetState ==
    /\ controller.made
    /\ \E state \in States \cup {"broken"} :
          \E done \in {setState(state)} :
             /\ call' = Called("SetState", state, done.cell, done.panic)
             /\ controller' = [controller EXCEPT !.state_ = done.state_]
    /\ UNCHANGED outsideController

NextController == Controller \/ ProcessEvent \/ SetState

Machine == InitController /\ [][NextController]_vars

\* C20: for every table the constructor accepts and every sequence of
\* ProcessEvent and SetState calls, a ProcessEvent that finds the invalid
\* state in the cell of the current state and the event fails, and the
\* current state is never the invalid state.
InvalidTransitionsCannotOccur ==
    /\ (call.op = "ProcessEvent" /\ eventIndex(call.argument) > 0
            /\ call.cell = invalid) => call.panic
    /\ controller.made => controller.state_ # invalid

\* C21: once Controller has succeeded, whatever ProcessEvent and SetState
\* calls follow, succeeding or failing, the state of the controller is a key
\* of the transitions table, every row of the table is as wide as the event
\* list, and a ProcessEvent that reads a cell reads it in the row of a key,
\* at an index inside that row.
ControllerEnforcesStates ==
    controller.made =>
        /\ controller.state_ \in DOMAIN controller.transitions_
        /\ \A state \in DOMAIN controller.transitions_ :
              Len(controller.transitions_[state]) = Len(controller.events_)
        /\ (call.op = "ProcessEvent" /\ eventIndex(call.argument) > 0) =>
              /\ call.from \in DOMAIN controller.transitions_
              /\ eventIndex(call.argument)
                     \in 1..Len(controller.transitions_[call.from])

\* A ProcessEvent has moved the controller to another state of its table.
ControllerMoved ==
    /\ controller.made
    /\ call.op = "ProcessEvent"
    /\ ~call.panic
    /\ controller.state_ # call.from

\* Controller has just returned a controller.
Constructed == call.op = "Controller" /\ call.done /\ ~call.panic

Occurrences(event) ==
    {index \in 1..Len(controller.events_) : controller.events_[index] = event}

\* The first of a non-empty set of indexes.
First(indexes) == CHOOSE index \in indexes : \A other \in indexes : index <= other

\* C24: when ProcessEvent(event) is called with an event of the event list,
\* and the cell of the table in the row of the current state, at the index
\* of the first occurrence of the event, is a key of the table, then the
\* call does not fail, it returns that cell, the state of the controller
\* (what GetState returns next) is that cell, and the event list and the
\* table are what they were.
ProcessEventStep ==
    [][(controller.made /\ call'.op = "ProcessEvent"
            /\ Occurrences(call'.argument) # {}
            /\ controller.transitions_[controller.state_][
                   First(Occurrences(call'.argument))]
                   \in DOMAIN controller.transitions_)
        => /\ ~call'.panic
           /\ call'.cell = controller.transitions_[controller.state_][
                               First(Occurrences(call'.argument))]
           /\ controller'.state_ = call'.cell
           /\ controller'.events_ = controller.events_
           /\ controller'.transitions_ = controller.transitions_]_vars

\* ProcessEvent has succeeded on an event that occurs twice in the event
\* list, the two occurrences leading to different states.
EventProcessed ==
    /\ controller.made
    /\ call.op = "ProcessEvent"
    /\ ~call.panic
    /\ controller.state_ = call.cell
    /\ \E other \in Occurrences(call.argument) :
          controller.transitions_[call.from][other] # call.cell

\* C25: a ProcessEvent or a SetState that fails leaves the state of the
\* controller, its event list and its table as they were before the call;
\* ProcessEvent fails when the event is not in the event list or the cell it
\* leads to is not a key of the table, SetState when the state is not a key
\* of the table, and neither fails otherwise.
FailingChangesNothing ==
    [][(controller.made /\ call'.op \in {"ProcessEvent", "SetState"})
        => /\ call'.panic => controller' = controller
           /\ call'.op = "ProcessEvent" =>
                (call'.panic <=>
                    \/ Occurrences(call'.argument) = {}
                    \/ controller.transitions_[controller.state_][
                           First(Occurrences(call'.argument))]
                           \notin DOMAIN controller.transitions_)
           /\ call'.op = "SetState" =>
                (call'.panic <=>
                    call'.argument \notin DOMAIN controller.transitions_)]_vars

\* ProcessEvent has failed on the cell it read, which is no key of the
\* table, and the controller is in the state it was in.
FailedOnCell ==
    /\ controller.made
    /\ call.op = "ProcessEvent"
    /\ call.panic
    /\ Occurrences(call.argument) # {}
    /\ call.cell \notin DOMAIN controller.transitions_
    /\ controller.state_ = call.from

\* C23: IsDefined(v) is false exactly when v is nil, an empty string of any
\* string type, or a nil pointer, slice, map, channel or function, and true
\* of every other value; IsUndefined(v) is its negation.
IsDefinedExactly ==
    /\ Made("IsDefined") =>
          (call.returned <=>
              ~ \/ call.first.kind = "nil"
                \/ call.first.kind = "string" /\ call.first.len = 0
                \/ call.first.kind \in Pointers /\ call.first.nil)
    /\ Made("IsUndefined") => (call.returned <=> ~isDefined(call.first))

\* ------------------------------------------------------------------------
\* The iterator of composite.go
\* ------------------------------------------------------------------------

\* The longest array an iterator is made over.
MaxSize == 3

\* The instance createIterator returns: the slot is its zero value.
createIterator(array) ==
    [made |-> TRUE, slot_ |-> 0, size_ |-> Len(array), values_ |-> array]

\* What a method that moves the iterator does: the slot it leaves and the
\* item it returns.
Moved(slot, item) == [slot_ |-> slot, result_ |-> item]

\* A GetPrevious that returns the item and stays where it is.
getPreviousInPlace ==
    IF iterator.slot_ > 0
    THEN Moved(iterator.slot_, iterator.values_[(iterator.slot_ - 1) + 1])
    ELSE Moved(iterator.slot_, Zero)

\* The item at the zero-based index slot_ - 1 is the item slot_ of the
\* sequence values_, which counts from 1.
getPrevious ==
    IF iterator.slot_ > 0
    THEN Moved(iterator.slot_ - 1, iterator.values_[(iterator.slot_ - 1) + 1])
    ELSE Moved(iterator.slot_, Zero)

\* A GetNext that moves forward and returns the items from the last one.
getNextFromEnd ==
    IF iterator.slot_ < iterator.size_
    THEN Moved(iterator.slot_ + 1,
               iterator.values_[iterator.size_ - iterator.slot_])
    ELSE Moved(iterator.slot_, Zero)

getNext ==
    IF iterator.slot_ < iterator.size_
    THEN LET slot == iterator.slot_ + 1
         IN  Moved(slot, iterator.values_[(slot - 1) + 1])
    ELSE Moved(iterator.slot_, Zero)

\* A SetSlot that takes the slot as it is given.
setSlotAsGiven(slot) == slot

setSlot(slot) == IF slot > iterator.size_ THEN iterator.size_ ELSE slot

\* What a call of a method of the iterator leaves in call: the slot the
\* iterator was at, the argument, what the method returned, and the method
\* that was called before it with the slot that one was called at.
Method_(op, argument, returned) ==
    [op |-> op, from |-> iterator.slot_, argument |-> argument,
     returned |-> returned, after |-> [op |-> call.op, from |-> call.from]]

InitIteration ==
    /\ heap = <<>>
    /\ storage = <<>>
    /\ value = Nil
    /\ frames = <<>>
    /\ result = Outcome("none", <<>>, "")
    /\ previous = Outcome("none", <<>>, "")
    /\ calls = <<>>
    /\ alone = <<>>
    /\ consulted = {}
    /\ memory = <<>>
    /\ held = <<>>
    /\ controller = NoController
    /\ iterator = NoIterator
    /\ loop = NoLoop
    /\ \E array \in ArraysOf(MaxSize) :
          call = [op |-> "Iterator", from |-> 0, argument |-> array]

\* Iterator(array)
Iterator ==
    /\ call.op = "Iterator"
    /\ ~iterator.made
    /\ iterator' = createIterator(call.argument)
    /\ UNCHANGED <<call, loop, outsideIterator>>

IsEmpty ==
    /\ iterator.made
    /\ call' = Method_("IsEmpty", 0, iterator.size_ = 0)
    /\ UNCHANGED <<iterator, loop, outsideIterator>>

ToStart ==
    /\ iterator.made
    /\ call' = Method_("ToStart", 0, Zero)
    /\ iterator' = [iterator EXCEPT !.slot_ = 0]
    /\ UNCHANGED <<loop, outsideIterator>>

ToEnd ==
    /\ iterator.made
    /\ call' = Method_("ToEnd", 0, Zero)
    /\ iterator' = [iterator EXCEPT !.slot_ = iterator.size_]
    /\ UNCHANGED <<loop, outsideIterator>>

HasPrevious ==
    /\ iterator.made
    /\ call' = Method_("HasPrevious", 0, iterator.slot_ > 0)
    /\ UNCHANGED <<iterator, loop, outsideIterator>>

GetPrevious ==
    /\ iterator.made
    /\ call' = Method_("GetPrevious", 0, getPrevious.result_)
    /\ iterator' = [iterator EXCEPT !.slot_ = getPrevious.slot_]
    /\ UNCHANGED <<loop, outsideIterator>>

HasNext ==
    /\ iterator.made
    /\ call' = Method_("HasNext", 0, iterator.slot_ < iterator.size_)
    /\ UNCHANGED <<iterator, loop, outsideIterator>>

GetNext ==
    /\ iterator.made
    /\ call' = Method_("GetNext", 0, getNext.result_)
    /\ iterator' = [iterator EXCEPT !.slot_ = getNext.slot_]
    /\ UNCHANGED <<loop, outsideIterator>>

GetSize ==
    /\ iterator.made
    /\ call' = Method_("GetSize", 0, iterator.size_)
    /\ UNCHANGED <<iterator, loop, outsideIterator>>

GetSlot ==
    /\ iterator.made
    /\ call' = Method_("GetSlot", 0, iterator.slot_)
    /\ UNCHANGED <<iterator, loop, outsideIterator>>

\* SetSlot(slot), for every slot a uint can be.
SetSlot ==
    /\ iterator.made
    /\ \E slot \in 0..MaxUint :
          /\ call' = Method_("SetSlot", slot, Zero)
          /\ iterator' = [iterator EXCEPT !.slot_ = setSlot(slot)]
    /\ UNCHANGED <<loop, outsideIterator>>

NextIteration ==
    \/ Iterator
    \/ IsEmpty
    \/ ToStart
    \/ ToEnd
    \/ HasPrevious
    \/ GetPrevious
    \/ HasNext
    \/ GetNext
    \/ GetSize
    \/ GetSlot
    \/ SetSlot

Iteration == InitIteration /\ [][NextIteration]_vars

\* The methods of the iterator that ask and do not move.
Queries == {"IsEmpty", "HasPrevious", "HasNext", "GetSize", "GetSlot"}

\* C26: for an iterator over an array of n items, after any sequence of
\* calls of its methods, SetSlot(s) with s above n included, the slot is
\* between 0 and n, GetSize() is n, HasNext() is whether the slot is below
\* n, HasPrevious() is whether it is above 0, and a method that asks leaves
\* the slot where it was.
SlotStaysInside ==
    iterator.made =>
        /\ iterator.slot_ \in 0..Len(iterator.values_)
        /\ iterator.size_ = Len(iterator.values_)
        /\ call.op = "GetSize" => call.returned = Len(iterator.values_)
        /\ call.op = "HasNext" =>
              (call.returned <=> call.from < Len(iterator.values_))
        /\ call.op = "HasPrevious" => (call.returned <=> call.from > 0)
        /\ call.op \in Queries => iterator.slot_ = call.from

\* SetSlot has been called with a slot beyond the end of an array that is
\* not empty, and the iterator is at the end.
SlotClamped ==
    /\ iterator.made
    /\ call.op = "SetSlot"
    /\ call.argument > iterator.size_
    /\ iterator.size_ > 0
    /\ iterator.slot_ = iterator.size_

\* C27: at slot s with an item after it, GetNext() returns the item at the
\* zero-based index s and moves to slot s + 1, and a GetPrevious() called
\* next returns that same item and moves back to slot s; with no item after
\* the slot GetNext() returns the zero value and stays, and GetPrevious()
\* does the same with no item before the slot, and otherwise returns the
\* item at the zero-based index s - 1 and moves to slot s - 1.
IteratorStep ==
    [][iterator.made =>
        /\ call'.op = "GetNext" =>
              IF iterator.slot_ < iterator.size_
              THEN /\ call'.returned = iterator.values_[iterator.slot_ + 1]
                   /\ iterator'.slot_ = iterator.slot_ + 1
              ELSE /\ call'.returned = Zero
                   /\ iterator'.slot_ = iterator.slot_
        /\ call'.op = "GetPrevious" =>
              IF iterator.slot_ > 0
              THEN /\ call'.returned = iterator.values_[iterator.slot_]
                   /\ iterator'.slot_ = iterator.slot_ - 1
              ELSE /\ call'.returned = Zero
                   /\ iterator'.slot_ = iterator.slot_
        /\ (call.op = "GetNext" /\ call.from < iterator.size_
                /\ call'.op = "GetPrevious") =>
              /\ call'.returned = call.returned
              /\ iterator'.slot_ = call.from]_vars

\* GetNext has returned an item that is not the zero value, and the
\* GetPrevious called next has brought the iterator back before that item.
WentThereAndBack ==
    /\ iterator.made
    /\ call.op = "GetPrevious"
    /\ call.after.op = "GetNext"
    /\ call.after.from < iterator.size_
    /\ iterator.slot_ = call.after.from
    /\ call.returned = iterator.values_[iterator.slot_ + 1]
    /\ call.returned # Zero

\* ------------------------------------------------------------------------
\* A loop over the iterator
\* ------------------------------------------------------------------------

\* The loop of a caller, forward
\*     iterator.ToStart(); for iterator.HasNext() { got = append(got, iterator.GetNext()) }
\* or backward
\*     iterator.ToEnd(); for iterator.HasPrevious() { got = append(got, iterator.GetPrevious()) }
\* on an iterator that may be at any slot when the loop starts.
Loop(pc, forward, got) == [pc |-> pc, forward |-> forward, got |-> got]

InitTraversal ==
    /\ heap = <<>>
    /\ storage = <<>>
    /\ value = Nil
    /\ frames = <<>>
    /\ result = Outcome("none", <<>>, "")
    /\ previous = Outcome("none", <<>>, "")
    /\ calls = <<>>
    /\ alone = <<>>
    /\ consulted = {}
    /\ call = NoCall
    /\ memory = <<>>
    /\ held = <<>>
    /\ controller = NoController
    /\ \E array \in ArraysOf(MaxSize) :
          \E slot \in 0..Len(array) :
             iterator = [createIterator(array) EXCEPT !.slot_ = slot]
    /\ \E forward \in BOOLEAN : loop = Loop("start", forward, <<>>)

\* ToStart() or ToEnd(), before the loop.
LoopStart ==
    /\ loop.pc = "start"
    /\ iterator' = [iterator EXCEPT
                       !.slot_ = IF loop.forward THEN 0 ELSE iterator.size_]
    /\ loop' = [loop EXCEPT !.pc = "test"]
    /\ UNCHANGED <<call, outsideIterator>>

\* The condition of the loop: HasNext() or HasPrevious().
LoopTest ==
    /\ loop.pc = "test"
    /\ loop' = [loop EXCEPT
                   !.pc = IF (IF loop.forward
                              THEN iterator.slot_ < iterator.size_
                              ELSE iterator.slot_ > 0)
                          THEN "body" ELSE "done"]
    /\ UNCHANGED <<iterator, call, outsideIterator>>

\* The body of the loop: GetNext() or GetPrevious().
LoopBody ==
    /\ loop.pc = "body"
    /\ \E moved \in {IF loop.forward THEN getNext ELSE getPrevious} :
          /\ iterator' = [iterator EXCEPT !.slot_ = moved.slot_]
          /\ loop' = [loop EXCEPT !.pc = "test",
                                  !.got = Append(loop.got, moved.result_)]
    /\ UNCHANGED <<call, outsideIterator>>

NextTraversal == LoopStart \/ LoopTest \/ LoopBody

\* The goroutine of the loop is scheduled as long as it can take a step.
Traversal ==
    InitTraversal /\ [][NextTraversal]_vars /\ WF_vars(NextTraversal)

Reverse(array) ==
    [index \in 1..Len(array) |-> array[Len(array) + 1 - index]]

\* The loop is over: it has called GetNext (GetPrevious) as many times as
\* GetSize() says and has got the items of the array in the order of their
\* indexes (in the reverse order).
Traversed ==
    /\ loop.pc = "done"
    /\ Len(loop.got) = iterator.size_
    /\ loop.got = IF loop.forward THEN iterator.values_
                  ELSE Reverse(iterator.values_)

\* C28: from ToStart(), the loop that calls GetNext() while HasNext() ends,
\* after exactly GetSize() calls that return the items of the array in index
\* order, each once; from ToEnd(), the loop that calls GetPrevious() while
\* HasPrevious() ends after GetSize() calls that return the items in the
\* reverse order.
TraversalEnds == <>Traversed

\* A backward loop is over on an array of three items, the first and the
\* last different.
TraversedBackward ==
    /\ Traversed
    /\ ~loop.forward
    /\ Len(loop.got) = 3
    /\ loop.got[1] # loop.got[3]

\* ------------------------------------------------------------------------
\* The base 32 encoding of codex.go.  A byte is a number below 256, a string
\* is the sequence of its characters, and the operators of Go on bytes are
\* computed bit by bit.
\* ------------------------------------------------------------------------

\* The longest sequence of bytes that is encoded.
MaxBytes == 6

\* The bytes of the sequences, 0x00, 0x5A and 0xA5: every bit of a byte is
\* set in one of them and clear in another.
Octets == {0, 90, 165}

ByteSequences == UNION {[1..size -> Octets] : size \in 0..MaxBytes}

Bit(byte, k) == (byte \div 2 ^ k) % 2

\* x & y, x | y, x << n and x >> n on bytes.
And(x, y) ==
    LET sum[k \in 0..8] ==
            IF k = 8 THEN 0 ELSE Bit(x, k) * Bit(y, k) * 2 ^ k + sum[k + 1]
    IN  sum[0]
Or(x, y) ==
    LET sum[k \in 0..8] ==
            IF k = 8 THEN 0
            ELSE (IF Bit(x, k) + Bit(y, k) > 0 THEN 2 ^ k ELSE 0) + sum[k + 1]
    IN  sum[0]
Shl(x, n) == (x * 2 ^ n) % 256
Shr(x, n) == x \div 2 ^ n

base32LookupTable ==
    << "0", "1", "2", "3", "4", "5", "6", "7", "8", "9", "A", "B", "C", "D",
       "F", "G", "H", "J", "K", "L", "M", "N", "P", "Q", "R", "S", "T", "V",
       "W", "X", "Y", "Z" >>

\* The small letters of the capital letters of the table, place by place.
SmallLetters ==
    << "0", "1", "2", "3", "4", "5", "6", "7", "8", "9", "a", "b", "c", "d",
       "f", "g", "h", "j", "k", "l", "m", "n", "p", "q", "r", "s", "t", "v",
       "w", "x", "y", "z" >>

Whitespace == {" ", "\n"}

\* base32LookupTable[chunk]
Base32Digit(chunk) == base32LookupTable[chunk + 1]

\* byte(strings.Index(base32LookupTable, character)): the byte of -1 is 255.
Chunk(character) ==
    IF \E i \in 1..32 : base32LookupTable[i] = character
    THEN (CHOOSE i \in 1..32 : base32LookupTable[i] = character) - 1
    ELSE 255

\* strings.ToLower and unicode.ToUpper on the characters of the model.
ToLower(character) ==
    IF \E i \in 1..32 : base32LookupTable[i] = character
    THEN SmallLetters[CHOOSE i \in 1..32 : base32LookupTable[i] = character]
    ELSE character
ToUpper(character) ==
    IF \E i \in 1..32 : SmallLetters[i] = character
    THEN base32LookupTable[CHOOSE i \in 1..32 : SmallLetters[i] = character]
    ELSE character

base32EncodeBytes(previous_, current, index) ==
    CASE index % 5 = 0 -> <<Base32Digit(Shr(And(current, 248), 3))>>
      [] index % 5 = 1 ->
             <<Base32Digit(Or(Shl(And(previous_, 7), 2), Shr(And(current, 192), 6))),
               Base32Digit(Shr(And(current, 62), 1))>>
      [] index % 5 = 2 ->
             <<Base32Digit(Or(Shl(And(previous_, 1), 4), Shr(And(current, 240), 4)))>>
      [] index % 5 = 3 ->
             <<Base32Digit(Or(Shl(And(previous_, 15), 1), Shr(And(current, 128), 7))),
               Base32Digit(Shr(And(current, 124), 2))>>
      [] index % 5 = 4 ->
             <<Base32Digit(Or(Shl(And(previous_, 3), 3), Shr(And(current, 224), 5))),
               Base32Digit(And(current, 31))>>

base32EncodeLast(last, index) ==
    CASE index % 5 = 0 -> <<Base32Digit(Shl(And(last, 7), 2))>>
      [] index % 5 = 1 -> <<Base32Digit(Shl(And(last, 1), 4))>>
      [] index % 5 = 2 -> <<Base32Digit(Shl(And(last, 15), 1))>>
      [] index % 5 = 3 -> <<Base32Digit(Shl(And(last, 3), 3))>>
      [] index % 5 = 4 -> <<>>

\* The index of the loop counts from 0, the sequence bytes from 1; the
\* previous byte of the first byte is the zero byte.
base32Encode(bytes) ==
    LET size == Len(bytes)
        RECURSIVE each(_)
        each(index) ==
            IF index >= size THEN <<>>
            ELSE base32EncodeBytes(IF index = 0 THEN 0 ELSE bytes[index],
                                   bytes[index + 1], index)
                 \o each(index + 1)
    IN  each(0) \o (IF size > 0 THEN base32EncodeLast(bytes[size], size - 1)
                    ELSE <<>>)

\* What is left of the bytes after an index out of range.
OutOfRange == <<-1>>

\* bytes[byteIndex] |= bits
OrInto(bytes, byteIndex, bits) ==
    IF bytes = OutOfRange \/ byteIndex + 1 \notin DOMAIN bytes THEN OutOfRange
    ELSE [bytes EXCEPT ![byteIndex + 1] = Or(@, bits)]

base32DecodeBytes(chunk, characterIndex, bytes) ==
    LET byteIndex == (characterIndex * 5) \div 8
        here(bits) == OrInto(bytes, byteIndex, bits)
        both(bits, more) == OrInto(here(bits), byteIndex + 1, more)
    IN  CASE characterIndex % 8 = 0 -> here(Shl(chunk, 3))
          [] characterIndex % 8 = 1 -> both(Shr(chunk, 2), Shl(chunk, 6))
          [] characterIndex % 8 = 2 -> here(Shl(chunk, 1))
          [] characterIndex % 8 = 3 -> both(Shr(chunk, 4), Shl(chunk, 4))
          [] characterIndex % 8 = 4 -> both(Shr(chunk, 1), Shl(chunk, 7))
          [] characterIndex % 8 = 5 -> here(Shl(chunk, 2))
          [] characterIndex % 8 = 6 -> both(Shr(chunk, 3), Shl(chunk, 5))
          [] characterIndex % 8 = 7 -> here(chunk)

base32DecodeLast(chunk, characterIndex, bytes) ==
    LET byteIndex == (characterIndex * 5) \div 8
    IN  CASE characterIndex % 8 = 1 -> OrInto(bytes, byteIndex, Shr(chunk, 2))
          [] characterIndex % 8 = 3 -> OrInto(bytes, byteIndex, Shr(chunk, 4))
          [] characterIndex % 8 = 4 -> OrInto(bytes, byteIndex, Shr(chunk, 1))
          [] characterIndex % 8 = 6 -> OrInto(bytes, byteIndex, Shr(chunk, 3))
          [] characterIndex % 8 = 7 -> OrInto(bytes, byteIndex, chunk)
          [] OTHER -> bytes

\* A purification that leaves the small letters as they are.
purifyKeepingCase(encoded) ==
    SelectSeq(encoded, LAMBDA c : c \notin Whitespace)

\* The characters that are no space, each made a capital.
purify(encoded) ==
    LET kept == SelectSeq(encoded, LAMBDA c : c \notin Whitespace)
    IN  [i \in 1..Len(kept) |-> ToUpper(kept[i])]

base32Decode(encoded) ==
    LET pure == purify(encoded)
        encodedSize == Len(pure)
        decodedSize == (encodedSize * 5) \div 8
        RECURSIVE each(_, _)
        each(index, bytes) ==
            IF index < encodedSize - 1
            THEN each(index + 1,
                      base32DecodeBytes(Chunk(pure[index + 1]), index, bytes))
            ELSE IF encodedSize > 0
            THEN base32DecodeLast(Chunk(pure[index + 1]), index, bytes)
            ELSE bytes
    IN  each(0, [i \in 1..decodedSize |-> 0])

\* The encoded text as a caller may pass it back: in small letters or not,
\* with a space before one of its characters (or after the last) or not.
Altered(encoded, lower, gap) ==
    LET cased == [i \in 1..Len(encoded) |->
                     IF lower THEN ToLower(encoded[i]) ELSE encoded[i]]
        space == IF lower THEN "\n" ELSE " "
    IN  IF gap = 0 THEN cased
        ELSE SubSeq(cased, 1, gap - 1) \o <<space>>
             \o SubSeq(cased, gap, Len(cased))

InitCodex ==
    /\ heap = <<>>
    /\ storage = <<>>
    /\ value = Nil
    /\ frames = <<>>
    /\ result = Outcome("none", <<>>, "")
    /\ previous = Outcome("none", <<>>, "")
    /\ calls = <<>>
    /\ alone = <<>>
    /\ consulted = {}
    /\ memory = <<>>
    /\ held = <<>>
    /\ controller = NoController
    /\ iterator = NoIterator
    /\ loop = NoLoop
    /\ \E bytes \in ByteSequences :
          call = [op |-> "Base32Encode", bytes |-> bytes, done |-> FALSE]

\* Base32Encode(bytes)
Base32Encode ==
    /\ call.op = "Base32Encode"
    /\ ~call.done
    /\ call' = [op |-> "Base32Encode", bytes |-> call.bytes, done |-> TRUE,
                encoded |-> base32Encode(call.bytes)]
    /\ UNCHANGED <<memory, held, outsideComposite>>

\* Base32Decode(text), text being what Base32Encode returned, as it is or
\* altered.
Base32Decode ==
    /\ call.op = "Base32Encode"
    /\ call.done
    /\ \E lower \in BOOLEAN, gap \in 0..(Len(call.encoded) + 1) :
          \E text \in {Altered(call.encoded, lower, gap)} :
             call' = [op |-> "Base32Decode", bytes |-> call.bytes, done |-> TRUE,
                      encoded |-> call.encoded, text |-> text,
                      lower |-> lower, gap |-> gap,
                      decoded |-> base32Decode(text)]
    /\ UNCHANGED <<memory, held, outsideComposite>>

NextCodex == Base32Encode \/ Base32Decode

Codex == InitCodex /\ [][NextCodex]_vars

\* C30: for every sequence of bytes b, the empty one and one of every
\* length modulo 5 included, Base32Encode(b) has ceil(8 * len(b) / 5)
\* characters, all of them characters of the table
\* "0123456789ABCDFGHJKLMNPQRSTVWXYZ", and Base32Decode gives b back from
\* that text, from that text in small letters, and from either with a space
\* put in.
Base32RoundTrip ==
    /\ (call.op \in {"Base32Encode", "Base32Decode"} /\ call.done) =>
          /\ Len(call.encoded) = (8 * Len(call.bytes) + 4) \div 5
          /\ \A i \in 1..Len(call.encoded) :
                \E j \in 1..32 : base32LookupTable[j] = call.encoded[i]
    /\ call.op = "Base32Decode" => call.decoded = call.bytes

\* Six bytes that are not all the same have been encoded, and decoded from
\* the text in small letters with a space in it.
DecodedFromAlteredText ==
    /\ call.op = "Base32Decode"
    /\ Len(call.bytes) = 6
    /\ call.bytes[1] # call.bytes[6]
    /\ call.lower
    /\ call.gap \in 2..Len(call.encoded)
    /\ call.text # call.encoded
    /\ call.decoded = call.bytes

====
